---- MODULE Spec2Model ----
(***************************************************************************)
(* Complaint intelligence platform: the relational store, the auth and     *)
(* admin routes, the tenant-scoped data routes and the workflow            *)
(* orchestrator, as state machines over the database tables.               *)
(***************************************************************************)
EXTENDS Integers, Sequences, FiniteSets, TLC

\* ---------------------------------------------------------------- bounds
MaxUsers == 3
MaxTenants == 3
MaxAudit == 2
MaxComplaints == 4
MaxSolutions == 1
MaxFeedback == 1
MaxRuns == 2
MaxRisk == 3
MaxTime == 3
MaxHistory == 3
MaxFlags == 3
MaxSimilar == 2
MaxWords == 2

\* ------------------------------------------------------------ input sets
Emails == {"e1", "e2", "e3"}
Passwords == {"p1", "p2"}
Domains == {"d1", "d2", "d3"}
\* UserRole (schemas.py) ; "regulator" is a role but not a valid new_role
UserRole == {"consumer", "analyst", "admin", "regulator"}
RoleInputs == {"consumer", "regulator"}
NewUserRoles == {"consumer", "admin"}
NewUserPasswords == {"p2"}

VARIABLES
    tenants,      \* table tenants      : Seq of [domain, is_active], id = index
    users,        \* table users        : Seq of rows, id = index
    audit_logs,   \* table audit_logs   : Seq of rows, id = index
    tokens,       \* JWTs issued so far : set of [sub, tenant_id]
    mutations,    \* history: admin mutations committed so far, in commit order
    resp,         \* the response to the latest request
    complaints,   \* table complaints_raw : Seq of rows, id = index
    risk_scores,  \* table risk_scores    : Seq of rows
    solutions,    \* table solutions      : Seq of rows
    feedback,     \* table feedback       : Seq of rows
    runs,         \* requests that call the workflow, one record per task
    agent_communication_log,  \* ComplaintWorkflowGraph.agent_communication_log
    calc          \* a call of one of the scoring functions: arguments and result

dataVars == <<complaints, risk_scores, solutions, feedback>>
wfVars == <<runs, agent_communication_log>>
vars == <<tenants, users, audit_logs, tokens, mutations, resp, dataVars, wfVars, calc>>

\* ------------------------------------------------------------- responses
NoRows == {}

\* get_db: what the dependency does to its session when the scope ends
\* (outcome "success" | "exception" | "cancelled"); CancelledError is not
\* an Exception, so only the finally clause runs for it
get_db(outcome) ==
    IF outcome = "exception" THEN <<"open", "rollback", "raise", "close">>
    ELSE <<"open", "close">>

\* a handler that answers with an error status does so by raising HTTPException
Response(op, caller, target, status, detail, rows) ==
    [op |-> op, caller |-> caller, target |-> target,
     status |-> status, detail |-> detail, rows |-> rows,
     session |-> get_db(IF status >= 400 THEN "exception" ELSE "success")]

Row(table, id, tenant_id) == [table |-> table, id |-> id, tenant_id |-> tenant_id]

credentials_exception(op, tok, target) ==
    Response(op, tok.sub, target, 401, "Could not validate credentials", NoRows)

\* ------------------------------------------------------------- passwords
get_password_hash(password) == <<"bcrypt", password>>

verify_password(plain_password, hashed_password) ==
    hashed_password = <<"bcrypt", plain_password>>

\* ------------------------------------------------------------ auth layer
UserIds == 1..Len(users)

\* select(User).where(email, tenant_id, is_active == True) ; 0 is None
get_user_by_email(email, tenant_id) ==
    LET hit == {i \in UserIds : /\ users[i].email = email
                                /\ users[i].tenant_id = tenant_id
                                /\ users[i].is_active}
    IN IF hit = {} THEN 0 ELSE CHOOSE i \in hit : TRUE

authenticate_user(email, password, tenant_id) ==
    LET user == get_user_by_email(email, tenant_id)
    IN IF user = 0 THEN 0
       ELSE IF ~verify_password(password, users[user].hashed_password) THEN 0
       ELSE user

\* a current-user lookup that forgets the is_active filter
get_current_user_any(tok) ==
    LET hit == {i \in UserIds : /\ i = tok.sub
                                /\ users[i].tenant_id = tok.tenant_id}
    IN IF hit = {} THEN 0 ELSE CHOOSE i \in hit : TRUE

\* decode the token, then re-fetch the active user row ; 0 is the 401
get_current_user(tok) ==
    LET hit == {i \in UserIds : /\ i = tok.sub
                                /\ users[i].tenant_id = tok.tenant_id
                                /\ users[i].is_active}
    IN IF hit = {} THEN 0 ELSE CHOOSE i \in hit : TRUE

require_admin_role(current_user) ==
    users[current_user].role \in {"admin", "regulator"}

\* a self-deactivation guard that never fires
IsSelfNever(user_id, current_user) == FALSE

\* "# Prevent self-deactivation": user.id == current_user.id
IsSelf(user_id, current_user) == user_id = current_user

\* the row a login names, active or not (history of the request, for resp.target)
UserNamed(email, tenant_id) ==
    LET hit == {i \in UserIds : users[i].email = email /\ users[i].tenant_id = tenant_id}
    IN IF hit = {} THEN 0 ELSE CHOOSE i \in hit : TRUE

\* users.email is declared unique=True: an insert of a taken email fails
EmailTaken(email) == \E i \in UserIds : users[i].email = email

NewUser(email, password, tenant_id, role) ==
    [email |-> email, hashed_password |-> get_password_hash(password),
     tenant_id |-> tenant_id, role |-> role, is_active |-> TRUE]

AuditLog(tenant_id, user_id, action, entity) ==
    [tenant_id |-> tenant_id, user_id |-> user_id, action |-> action, entity |-> entity]

Mutation(action, entity) == [action |-> action, entity |-> entity]

\* a role update that forgets to write its audit row
LogActionRoleUnlogged(current_user, action, entity) ==
    IF action = "user_role_updated" THEN audit_logs
    ELSE Append(audit_logs,
                AuditLog(users[current_user].tenant_id, current_user, action, entity))

\* "# Log action": db.add(AuditLog(...)) ; await db.commit()
LogAction(current_user, action, entity) ==
    Append(audit_logs,
           AuditLog(users[current_user].tenant_id, current_user, action, entity))

\* ------------------------------------------------------------- data rows
ComplaintRaw(tenant_id, user_id) == [tenant_id |-> tenant_id, user_id |-> user_id]

RiskScore(complaint_id, tenant_id, category, created_at) ==
    [complaint_id |-> complaint_id, tenant_id |-> tenant_id, category |-> category,
     created_at |-> created_at]

Solution(complaint_id, tenant_id) == [complaint_id |-> complaint_id, tenant_id |-> tenant_id]

Feedback(complaint_id, tenant_id, rating) ==
    [complaint_id |-> complaint_id, tenant_id |-> tenant_id, rating |-> rating]

\* FeedbackCreate.rating: Field(..., ge=1, le=5)
rating_ge == 1
rating_le == 5

\* the ratings a client sends: both limits and the integers just outside them
RatingInputs == {rating_ge - 1, rating_ge, rating_le, rating_le + 1}

\* a request schema that accepts every integer
rating_valid_any(rating) == TRUE

\* validation of the request body against FeedbackCreate
rating_valid(rating) == rating >= rating_ge /\ rating <= rating_le

\* the 422 answer FastAPI gives before the handler is called
validation_error(op, tok, target, rating) ==
    Response(op, tok.sub, target, 422,
             IF rating < rating_ge THEN "rating: greater_than_equal"
             ELSE "rating: less_than_equal",
             NoRows)

ComplaintIds == 1..Len(complaints)

\* a complaint lookup that forgets the tenant filter
ComplaintOfAnyTenant(complaint_id, current_user) == complaint_id \in ComplaintIds

\* select(ComplaintRaw).where(and_(id == complaint_id,
\*                                tenant_id == current_user.tenant_id))
ComplaintOfTenant(complaint_id, current_user) ==
    /\ complaint_id \in ComplaintIds
    /\ complaints[complaint_id].tenant_id = users[current_user].tenant_id

\* the ids of the rows of a table that carry the caller's tenant_id
TenantRows(table, current_user) ==
    {i \in 1..Len(table) : table[i].tenant_id = users[current_user].tenant_id}

\* ... and name the complaint
ComplaintRows(table, complaint_id, current_user) ==
    {i \in TenantRows(table, current_user) : table[i].complaint_id = complaint_id}

\* order_by(desc(created_at)).limit(1) ; rows are created in id order
Latest(ids) == CHOOSE i \in ids : \A j \in ids : j <= i

\* order_by(desc(created_at)).limit(1) over rows whose created_at was not
\* set in id order: a row with the greatest created_at
LatestCreated(table, ids) ==
    CHOOSE i \in ids : \A j \in ids : table[j].created_at <= table[i].created_at

complaint_not_found(op, tok, complaint_id) ==
    Response(op, tok.sub, complaint_id, 404, "Complaint not found", NoRows)

\* ---------------------------------------------------------------- workflow
\* _build_graph: add_node order, set_entry_point and add_edge
StageOrder == <<"complaint_reader", "complaint_sorter", "stats_finder",
                "risk_checker", "solution_helper", "feedback_logger">>

entry_point == "complaint_reader"

edges(node) ==
    CASE node = "complaint_reader" -> "complaint_sorter"
      [] node = "complaint_sorter" -> "stats_finder"
      [] node = "stats_finder" -> "risk_checker"
      [] node = "risk_checker" -> "solution_helper"
      [] node = "solution_helper" -> "feedback_logger"
      [] node = "feedback_logger" -> "END"

\* the receiver each wrapper names in _send_agent_message
to_agent(node) == IF edges(node) = "END" THEN "workflow_complete" ELSE edges(node)

\* the names workflow.py binds at module level (its import block and logger)
workflow_globals ==
    {"logging", "asyncio", "TypedDict", "Annotated", "List", "AsyncSession",
     "StateGraph", "END", "BaseMessage", "HumanMessage", "AIMessage", "ChatOpenAI",
     "get_db", "settings", "ComplaintState", "complaint_reader_agent",
     "complaint_sorter_agent", "stats_finder_agent", "risk_checker_agent",
     "solution_helper_agent", "feedback_logger_agent", "logger"}

\* what a call of get_db returns: get_db is a plain "async def ... yield",
\* not wrapped by contextlib.asynccontextmanager
get_db_call == "async_generator"

\* "async with obj" needs obj to have __aenter__ and __aexit__ ; an async
\* generator object has neither and the statement raises TypeError
SupportsAsyncWith(kind) == kind = "async_context_manager"

\* process_complaint: initial_state
initial_state(complaint_id) ==
    [complaint_id |-> complaint_id,
     processing_steps |-> << >>,
     errors |-> << >>,
     messages |-> <<"Process complaint">>]

NoResult ==
    [workflow_status |-> "", error |-> "", processing_steps |-> << >>,
     has_errors |-> FALSE, errors |-> << >>]

IdleRun ==
    [pc |-> "idle", op |-> "", caller |-> 0, complaint_id |-> 0, llm_up |-> TRUE,
     stage |-> "", entered |-> << >>, called |-> << >>, stage_sessions |-> << >>,
     state |-> initial_state(0), exc |-> "", result |-> NoResult]

RunIds == 1..MaxRuns

\* the statuses an agent's process can record for its step. The reader
\* always fails when it is given a session: store_complaint_embedding calls
\* text(...) where text is its own str parameter.
AgentStatuses(agent) ==
    IF agent = "complaint_reader" THEN {"failed"} ELSE {"success", "failed"}

\* <agent>.process(state, db): the try body appends a success step and a
\* message, the except clause appends one error and a failed step ; the
\* state is returned either way
agent_process(state, agent, status) ==
    [state EXCEPT
       !.processing_steps = Append(@, [agent |-> agent, status |-> status]),
       !.errors = IF status = "failed" THEN Append(@, agent) ELSE @,
       !.messages = IF status = "success" THEN Append(@, agent) ELSE @]

\* _receive_agent_message: the latest record addressed to agent_name for
\* this complaint id, surfaced as a message
_receive_agent_message(agent_name, state) ==
    LET log == agent_communication_log.entries
        agent_messages == {i \in 1..Len(log) :
                             /\ log[i].to_agent = agent_name
                             /\ log[i].complaint_id = state.complaint_id}
    IN IF agent_messages = {} THEN state
       ELSE [state EXCEPT !.messages = Append(@, "received")]

communication_entry(from_agent, state) ==
    [from_agent |-> from_agent, to_agent |-> to_agent(from_agent),
     complaint_id |-> state.complaint_id]

\* no scoring function has been called
NoCalc == [fn |-> "none"]

\* ------------------------------------------------------------------ Init
\* the tables, tokens and runs as the service starts with them
Seeded ==
    /\ tenants = << [domain |-> "d1", is_active |-> TRUE],
                    [domain |-> "d2", is_active |-> TRUE] >>
    /\ users = << NewUser("e1", "p1", 1, "admin"), NewUser("e2", "p1", 2, "regulator") >>
    /\ audit_logs = << >>
    /\ tokens = {[sub |-> 1, tenant_id |-> 1], [sub |-> 2, tenant_id |-> 2]}
    /\ mutations = << >>
    /\ resp = Response("none", 0, 0, 0, "", NoRows)
    /\ complaints = << ComplaintRaw(1, 1), ComplaintRaw(2, 2) >>
    /\ risk_scores = << RiskScore(1, 1, "high", 1), RiskScore(2, 2, "high", 2) >>
    /\ solutions = << >>
    /\ feedback = << >>
    /\ runs = [r \in RunIds |-> IdleRun]
    /\ agent_communication_log = [owner |-> 0, entries |-> << >>]

Init == Seeded /\ calc = NoCalc

\* ------------------------------------------------------------ auth routes
register_user(email, password, tenant_id, role) ==
    LET r(status, detail) == Response("register_user", 0, 0, status, detail, NoRows)
        id == Len(users) + 1
    IN
    /\ IF get_user_by_email(email, tenant_id) # 0
         THEN resp' = r(400, "Email already registered") /\ UNCHANGED users
       ELSE IF ~(tenant_id \in 1..Len(tenants) /\ tenants[tenant_id].is_active)
         THEN resp' = r(400, "Invalid tenant") /\ UNCHANGED users
       ELSE IF EmailTaken(email)
         THEN resp' = r(500, "Failed to register user") /\ UNCHANGED users
       ELSE /\ Len(users) < MaxUsers
            /\ users' = Append(users, NewUser(email, password, tenant_id, role))
            /\ resp' = Response("register_user", 0, id, 200, "",
                                {Row("users", id, tenant_id)})
    /\ UNCHANGED <<calc, tenants, audit_logs, tokens, mutations, dataVars, wfVars>>

\* a login that tells a caller whether the email is registered in the tenant
login_user_reply_telling(email, password, tenant_id) ==
    IF get_user_by_email(email, tenant_id) = 0
    THEN [status |-> 401, detail |-> "User not found"]
    ELSE IF authenticate_user(email, password, tenant_id) = 0
    THEN [status |-> 401, detail |-> "Incorrect credentials"]
    ELSE [status |-> 200, detail |-> ""]

\* status code and body detail of POST /login
login_user_reply(email, password, tenant_id) ==
    IF authenticate_user(email, password, tenant_id) = 0
    THEN [status |-> 401, detail |-> "Incorrect credentials"]
    ELSE [status |-> 200, detail |-> ""]

login_user(email, password, tenant_id) ==
    LET user == authenticate_user(email, password, tenant_id)
        named == UserNamed(email, tenant_id)
        reply == login_user_reply(email, password, tenant_id)
    IN
    /\ IF reply.status # 200
         THEN /\ resp' = Response("login_user", 0, named, reply.status,
                                  reply.detail, NoRows)
              /\ UNCHANGED tokens
       ELSE /\ tokens' = tokens \cup {[sub |-> user, tenant_id |-> users[user].tenant_id]}
            /\ resp' = Response("login_user", 0, named, reply.status, reply.detail,
                                {Row("users", user, users[user].tenant_id)})
    /\ UNCHANGED <<calc, tenants, users, audit_logs, mutations, dataVars, wfVars>>

get_current_user_info(tok) ==
    LET current_user == get_current_user(tok)
    IN
    /\ IF current_user = 0
         THEN resp' = credentials_exception("get_current_user_info", tok, 0)
       ELSE resp' = Response("get_current_user_info", tok.sub, current_user, 200, "",
                             {Row("users", current_user, users[current_user].tenant_id)})
    /\ UNCHANGED <<calc, tenants, users, audit_logs, tokens, mutations, dataVars, wfVars>>

\* ----------------------------------------------------------- admin routes
\* Depends(require_admin_role): 401 from get_current_user, 403 from the role
\* check ; 0 when the caller passes
AdminGate(tok) ==
    LET current_user == get_current_user(tok)
    IN IF current_user = 0 THEN 401
       ELSE IF ~require_admin_role(current_user) THEN 403
       ELSE 0

AdminReject(op, tok, target) ==
    IF AdminGate(tok) = 401 THEN credentials_exception(op, tok, target)
    ELSE Response(op, tok.sub, target, 403, "Admin access required", NoRows)

create_tenant(tok, domain) ==
    LET current_user == get_current_user(tok)
        id == Len(tenants) + 1
    IN
    /\ IF AdminGate(tok) # 0
         THEN /\ resp' = AdminReject("create_tenant", tok, 0)
              /\ UNCHANGED <<tenants, audit_logs, mutations>>
       ELSE IF \E t \in 1..Len(tenants) : tenants[t].domain = domain
         THEN /\ resp' = Response("create_tenant", tok.sub, 0, 400,
                                  "Tenant domain already exists", NoRows)
              /\ UNCHANGED <<tenants, audit_logs, mutations>>
       ELSE /\ Len(tenants) < MaxTenants
            /\ Len(audit_logs) < MaxAudit
            /\ tenants' = Append(tenants, [domain |-> domain, is_active |-> TRUE])
            /\ mutations' = Append(mutations, Mutation("tenant_created", id))
            /\ audit_logs' = LogAction(current_user, "tenant_created", id)
            /\ resp' = Response("create_tenant", tok.sub, id, 200, "", NoRows)
    /\ UNCHANGED <<calc, users, tokens, dataVars, wfVars>>

create_tenant_user(tok, email, password, role) ==
    LET current_user == get_current_user(tok)
        id == Len(users) + 1
    IN
    /\ IF AdminGate(tok) # 0
         THEN /\ resp' = AdminReject("create_tenant_user", tok, 0)
              /\ UNCHANGED <<users, audit_logs, mutations>>
       ELSE IF \E i \in UserIds : /\ users[i].email = email
                                  /\ users[i].tenant_id = users[current_user].tenant_id
         THEN /\ resp' = Response("create_tenant_user", tok.sub, 0, 400,
                                  "User already exists", NoRows)
              /\ UNCHANGED <<users, audit_logs, mutations>>
       ELSE IF EmailTaken(email)
         THEN /\ resp' = Response("create_tenant_user", tok.sub, 0, 500,
                                  "Failed to create user", NoRows)
              /\ UNCHANGED <<users, audit_logs, mutations>>
       ELSE /\ Len(users) < MaxUsers
            /\ Len(audit_logs) < MaxAudit
            /\ users' = Append(users,
                   NewUser(email, password, users[current_user].tenant_id, role))
            /\ mutations' = Append(mutations, Mutation("user_created", id))
            /\ audit_logs' = LogAction(current_user, "user_created", id)
            /\ resp' = Response("create_tenant_user", tok.sub, id, 200, "",
                                {Row("users", id, users[current_user].tenant_id)})
    /\ UNCHANGED <<calc, tenants, tokens, dataVars, wfVars>>

\* select(User).where(id == user_id, tenant_id == current_user.tenant_id)
UserInTenant(user_id, current_user) ==
    /\ user_id \in UserIds
    /\ users[user_id].tenant_id = users[current_user].tenant_id

valid_roles == {"consumer", "analyst", "admin"}

update_user_role(tok, user_id, new_role) ==
    LET current_user == get_current_user(tok)
    IN
    /\ IF AdminGate(tok) # 0
         THEN /\ resp' = AdminReject("update_user_role", tok, user_id)
              /\ UNCHANGED <<users, audit_logs, mutations>>
       ELSE IF ~UserInTenant(user_id, current_user)
         THEN /\ resp' = Response("update_user_role", tok.sub, user_id, 404,
                                  "User not found", NoRows)
              /\ UNCHANGED <<users, audit_logs, mutations>>
       ELSE IF new_role \notin valid_roles
         THEN /\ resp' = Response("update_user_role", tok.sub, user_id, 400,
                                  "Invalid role", NoRows)
              /\ UNCHANGED <<users, audit_logs, mutations>>
       ELSE /\ Len(audit_logs) < MaxAudit
            /\ users' = [users EXCEPT ![user_id].role = new_role]
            /\ mutations' = Append(mutations, Mutation("user_role_updated", user_id))
            /\ audit_logs' = LogAction(current_user, "user_role_updated", user_id)
            /\ resp' = Response("update_user_role", tok.sub, user_id, 200, "", NoRows)
    /\ UNCHANGED <<calc, tenants, tokens, dataVars, wfVars>>

\* a deactivation that also resets the user's role
deactivate_user_resetting_role(tok, user_id) ==
    LET current_user == get_current_user(tok)
    IN
    /\ IF AdminGate(tok) # 0
         THEN /\ resp' = AdminReject("deactivate_user", tok, user_id)
              /\ UNCHANGED <<users, audit_logs, mutations>>
       ELSE IF ~UserInTenant(user_id, current_user)
         THEN /\ resp' = Response("deactivate_user", tok.sub, user_id, 404,
                                  "User not found", NoRows)
              /\ UNCHANGED <<users, audit_logs, mutations>>
       ELSE IF IsSelf(user_id, current_user)
         THEN /\ resp' = Response("deactivate_user", tok.sub, user_id, 400,
                                  "Cannot deactivate your own account", NoRows)
              /\ UNCHANGED <<users, audit_logs, mutations>>
       ELSE /\ Len(audit_logs) < MaxAudit
            /\ users' = [users EXCEPT ![user_id].is_active = FALSE,
                                      ![user_id].role = "consumer"]
            /\ mutations' = Append(mutations, Mutation("user_deactivated", user_id))
            /\ audit_logs' = LogAction(current_user, "user_deactivated", user_id)
            /\ resp' = Response("deactivate_user", tok.sub, user_id, 200, "", NoRows)
    /\ UNCHANGED <<calc, tenants, tokens, dataVars, wfVars>>

deactivate_user(tok, user_id) ==
    LET current_user == get_current_user(tok)
    IN
    /\ IF AdminGate(tok) # 0
         THEN /\ resp' = AdminReject("deactivate_user", tok, user_id)
              /\ UNCHANGED <<users, audit_logs, mutations>>
       ELSE IF ~UserInTenant(user_id, current_user)
         THEN /\ resp' = Response("deactivate_user", tok.sub, user_id, 404,
                                  "User not found", NoRows)
              /\ UNCHANGED <<users, audit_logs, mutations>>
       ELSE IF IsSelf(user_id, current_user)
         THEN /\ resp' = Response("deactivate_user", tok.sub, user_id, 400,
                                  "Cannot deactivate your own account", NoRows)
              /\ UNCHANGED <<users, audit_logs, mutations>>
       ELSE /\ Len(audit_logs) < MaxAudit
            /\ users' = [users EXCEPT ![user_id].is_active = FALSE]
            /\ mutations' = Append(mutations, Mutation("user_deactivated", user_id))
            /\ audit_logs' = LogAction(current_user, "user_deactivated", user_id)
            /\ resp' = Response("deactivate_user", tok.sub, user_id, 200, "", NoRows)
    /\ UNCHANGED <<calc, tenants, tokens, dataVars, wfVars>>

get_audit_logs(tok) ==
    LET current_user == get_current_user(tok)
    IN
    /\ IF AdminGate(tok) # 0
         THEN resp' = AdminReject("get_audit_logs", tok, 0)
       ELSE resp' = Response("get_audit_logs", tok.sub, 0, 200, "",
                {Row("audit_logs", i, audit_logs[i].tenant_id) :
                   i \in {j \in 1..Len(audit_logs) :
                            audit_logs[j].tenant_id = users[current_user].tenant_id}})
    /\ UNCHANGED <<calc, tenants, users, audit_logs, tokens, mutations, dataVars, wfVars>>

\* ------------------------------------------------------------ data routes
adminVars == <<tenants, users, audit_logs, tokens, mutations>>

\* a read-only handler: the response is its only effect
Reply(response) ==
    /\ resp' = response
    /\ UNCHANGED <<calc, adminVars, dataVars, wfVars>>

get_complaints(tok) ==
    LET current_user == get_current_user(tok)
    IN Reply(IF current_user = 0 THEN credentials_exception("get_complaints", tok, 0)
             ELSE Response("get_complaints", tok.sub, 0, 200, "",
                    {Row("complaints_raw", i, complaints[i].tenant_id) :
                       i \in TenantRows(complaints, current_user)}))

get_complaint(tok, complaint_id) ==
    LET current_user == get_current_user(tok)
    IN Reply(IF current_user = 0
               THEN credentials_exception("get_complaint", tok, complaint_id)
             ELSE IF ~ComplaintOfTenant(complaint_id, current_user)
               THEN complaint_not_found("get_complaint", tok, complaint_id)
             ELSE Response("get_complaint", tok.sub, complaint_id, 200, "",
                    {Row("complaints_raw", complaint_id,
                         complaints[complaint_id].tenant_id)}))

get_risk_assessments(tok) ==
    LET current_user == get_current_user(tok)
    IN Reply(IF current_user = 0
               THEN credentials_exception("get_risk_assessments", tok, 0)
             ELSE Response("get_risk_assessments", tok.sub, 0, 200, "",
                    {Row("risk_scores", i, risk_scores[i].tenant_id) :
                       i \in TenantRows(risk_scores, current_user)}))

get_risk_assessment(tok, complaint_id) ==
    LET current_user == get_current_user(tok)
        found == ComplaintRows(risk_scores, complaint_id, current_user)
    IN Reply(IF current_user = 0
               THEN credentials_exception("get_risk_assessment", tok, complaint_id)
             ELSE IF ~ComplaintOfTenant(complaint_id, current_user)
               THEN complaint_not_found("get_risk_assessment", tok, complaint_id)
             ELSE IF found = {}
               THEN Response("get_risk_assessment", tok.sub, complaint_id, 404,
                             "Risk assessment not found", NoRows)
             ELSE Response("get_risk_assessment", tok.sub, complaint_id, 200, "",
                    {Row("risk_scores", LatestCreated(risk_scores, found),
                         risk_scores[LatestCreated(risk_scores, found)].tenant_id)}))

\* select(RiskScore, ComplaintRaw).join(...) filtered on RiskScore.tenant_id ;
\* each alert carries the risk row and the joined complaint's narrative
get_high_risk_alerts(tok) ==
    LET current_user == get_current_user(tok)
        found == {i \in TenantRows(risk_scores, current_user) :
                    /\ risk_scores[i].category = "high"
                    /\ risk_scores[i].complaint_id \in ComplaintIds}
    IN Reply(IF current_user = 0
               THEN credentials_exception("get_high_risk_alerts", tok, 0)
             ELSE Response("get_high_risk_alerts", tok.sub, 0, 200, "",
                    {Row("risk_scores", i, risk_scores[i].tenant_id) : i \in found}
                    \cup
                    {Row("complaints_raw", risk_scores[i].complaint_id,
                         complaints[risk_scores[i].complaint_id].tenant_id) :
                       i \in found}))

create_solution(tok, complaint_id) ==
    LET current_user == get_current_user(tok)
        id == Len(solutions) + 1
    IN
    /\ IF current_user = 0
         THEN /\ resp' = credentials_exception("create_solution", tok, complaint_id)
              /\ UNCHANGED solutions
       ELSE IF ~ComplaintOfTenant(complaint_id, current_user)
         THEN /\ resp' = complaint_not_found("create_solution", tok, complaint_id)
              /\ UNCHANGED solutions
       ELSE /\ Len(solutions) < MaxSolutions
            /\ solutions' = Append(solutions,
                   Solution(complaint_id, users[current_user].tenant_id))
            /\ resp' = Response("create_solution", tok.sub, complaint_id, 200, "",
                                {Row("solutions", id, users[current_user].tenant_id)})
    /\ UNCHANGED <<calc, adminVars, complaints, risk_scores, feedback, wfVars>>

get_solutions(tok) ==
    LET current_user == get_current_user(tok)
    IN Reply(IF current_user = 0 THEN credentials_exception("get_solutions", tok, 0)
             ELSE Response("get_solutions", tok.sub, 0, 200, "",
                    {Row("solutions", i, solutions[i].tenant_id) :
                       i \in TenantRows(solutions, current_user)}))

get_solution_by_complaint(tok, complaint_id) ==
    LET current_user == get_current_user(tok)
        found == ComplaintRows(solutions, complaint_id, current_user)
    IN Reply(IF current_user = 0
               THEN credentials_exception("get_solution_by_complaint", tok, complaint_id)
             ELSE IF ~ComplaintOfTenant(complaint_id, current_user)
               THEN complaint_not_found("get_solution_by_complaint", tok, complaint_id)
             ELSE IF found = {}
               THEN Response("get_solution_by_complaint", tok.sub, complaint_id, 404,
                             "Solution not found", NoRows)
             ELSE Response("get_solution_by_complaint", tok.sub, complaint_id, 200, "",
                    {Row("solutions", Latest(found), solutions[Latest(found)].tenant_id)}))

\* select(Solution, ComplaintRaw).join(...) filtered on Solution.complaint_id
\* and Solution.tenant_id ; the letter is built from the solution row alone
get_solution_letter(tok, complaint_id) ==
    LET current_user == get_current_user(tok)
        found == {i \in ComplaintRows(solutions, complaint_id, current_user) :
                    solutions[i].complaint_id \in ComplaintIds}
    IN Reply(IF current_user = 0
               THEN credentials_exception("get_solution_letter", tok, complaint_id)
             ELSE IF found = {}
               THEN Response("get_solution_letter", tok.sub, complaint_id, 404,
                             "Solution not found", NoRows)
             ELSE Response("get_solution_letter", tok.sub, complaint_id, 200, "",
                    {Row("solutions", Latest(found), solutions[Latest(found)].tenant_id)}))

create_feedback(tok, complaint_id, rating) ==
    LET current_user == get_current_user(tok)
        id == Len(feedback) + 1
    IN
    /\ IF current_user = 0
         THEN /\ resp' = credentials_exception("create_feedback", tok, complaint_id)
              /\ UNCHANGED feedback
       ELSE IF ~rating_valid(rating)
         THEN /\ resp' = validation_error("create_feedback", tok, complaint_id, rating)
              /\ UNCHANGED feedback
       ELSE IF ~ComplaintOfTenant(complaint_id, current_user)
         THEN /\ resp' = complaint_not_found("create_feedback", tok, complaint_id)
              /\ UNCHANGED feedback
       ELSE /\ Len(feedback) < MaxFeedback
            /\ feedback' = Append(feedback,
                   Feedback(complaint_id, users[current_user].tenant_id, rating))
            /\ resp' = Response("create_feedback", tok.sub, complaint_id, 200, "",
                                {Row("feedback", id, users[current_user].tenant_id)})
    /\ UNCHANGED <<calc, adminVars, complaints, risk_scores, solutions, wfVars>>

get_feedback(tok) ==
    LET current_user == get_current_user(tok)
    IN Reply(IF current_user = 0 THEN credentials_exception("get_feedback", tok, 0)
             ELSE Response("get_feedback", tok.sub, 0, 200, "",
                    {Row("feedback", i, feedback[i].tenant_id) :
                       i \in TenantRows(feedback, current_user)}))

get_feedback_by_complaint(tok, complaint_id) ==
    LET current_user == get_current_user(tok)
    IN Reply(IF current_user = 0
               THEN credentials_exception("get_feedback_by_complaint", tok, complaint_id)
             ELSE IF ~ComplaintOfTenant(complaint_id, current_user)
               THEN complaint_not_found("get_feedback_by_complaint", tok, complaint_id)
             ELSE Response("get_feedback_by_complaint", tok.sub, complaint_id, 200, "",
                    {Row("feedback", i, feedback[i].tenant_id) :
                       i \in ComplaintRows(feedback, complaint_id, current_user)}))

\* create_complaint up to "await db.commit()"
create_complaint_commit(r, tok) ==
    LET current_user == get_current_user(tok)
        id == Len(complaints) + 1
    IN
    /\ runs[r].pc = "idle"
    /\ IF current_user = 0
         THEN /\ resp' = credentials_exception("create_complaint", tok, 0)
              /\ UNCHANGED <<complaints, runs>>
       ELSE /\ Len(complaints) < MaxComplaints
            /\ complaints' = Append(complaints,
                   ComplaintRaw(users[current_user].tenant_id, current_user))
            /\ runs' = [runs EXCEPT ![r] =
                   [IdleRun EXCEPT !.pc = "committed", !.op = "create_complaint",
                                   !.caller = current_user, !.complaint_id = id]]
            /\ UNCHANGED resp
    /\ UNCHANGED <<calc, adminVars, risk_scores, solutions, feedback, agent_communication_log>>

\* reading complaint.labels, a lazy relationship of a row loaded through an
\* AsyncSession, needs database IO outside a greenlet: SQLAlchemy raises
\* MissingGreenlet instead of loading it
lazy_load(relationship) == "MissingGreenlet"

\* get_complaint_analysis: the ownership check, then "if not complaint.labels",
\* whose exception the handler's "except Exception" turns into a 500
get_complaint_analysis(tok, complaint_id) ==
    LET current_user == get_current_user(tok)
        risk == ComplaintRows(risk_scores, complaint_id, current_user)
    IN Reply(IF current_user = 0
               THEN credentials_exception("get_complaint_analysis", tok, complaint_id)
             ELSE IF ~ComplaintOfTenant(complaint_id, current_user)
               THEN complaint_not_found("get_complaint_analysis", tok, complaint_id)
             ELSE IF lazy_load("labels") = "MissingGreenlet"
               THEN Response("get_complaint_analysis", tok.sub, complaint_id, 500,
                             "Failed to retrieve complaint analysis", NoRows)
             ELSE Response("get_complaint_analysis", tok.sub, complaint_id, 200, "",
                    {Row("risk_scores", i, risk_scores[i].tenant_id) : i \in risk}))

\* process_complaint up to "await self.graph.ainvoke(initial_state)": the
\* state is built and a fresh list is bound to self.agent_communication_log
process_complaint_begin(r, llm_up) ==
    /\ runs[r].pc = "committed"
    /\ runs' = [runs EXCEPT ![r].pc = "graph",
                            ![r].llm_up = llm_up,
                            ![r].stage = entry_point,
                            ![r].state = initial_state(runs[r].complaint_id)]
    /\ agent_communication_log' = [owner |-> r, entries |-> << >>]
    /\ UNCHANGED <<calc, adminVars, dataVars, resp>>

\* one node of the graph: _<agent>_with_communication(state)
stage_wrapper(r) ==
    LET run == runs[r]
        node == run.stage
    IN
    /\ run.pc = "graph"
    /\ IF ~SupportsAsyncWith(get_db_call)
         THEN \* "async with get_db() as db" raises before a session exists
              /\ runs' = [runs EXCEPT ![r] =
                     [run EXCEPT !.pc = "raised", !.exc = "TypeError",
                                 !.entered = Append(@, node)]]
              /\ UNCHANGED agent_communication_log
       ELSE \E status \in AgentStatuses(node) :
              LET received == IF node = entry_point THEN run.state
                              ELSE _receive_agent_message(node, run.state)
                  result_state == agent_process(received, node, status)
              IN IF "time" \notin workflow_globals
                   THEN \* _send_agent_message evaluates time.time() first
                        /\ runs' = [runs EXCEPT ![r] =
                               [run EXCEPT !.pc = "raised", !.exc = "NameError",
                                           !.state = result_state,
                                           !.entered = Append(@, node),
                                           !.called = Append(@, node),
                                           !.stage_sessions =
                                               Append(@, get_db("exception"))]]
                        /\ UNCHANGED agent_communication_log
                 ELSE /\ agent_communication_log' =
                             [agent_communication_log EXCEPT !.entries =
                                 Append(@, communication_entry(node, result_state))]
                      /\ runs' = [runs EXCEPT ![r] =
                             [run EXCEPT
                                !.pc = IF edges(node) = "END" THEN "completed"
                                       ELSE "graph",
                                !.stage = edges(node),
                                !.state = [result_state EXCEPT
                                              !.messages = Append(@, "sent")],
                                !.entered = Append(@, node),
                                !.called = Append(@, node),
                                !.stage_sessions = Append(@, get_db("success"))]]
    /\ UNCHANGED <<calc, adminVars, dataVars, resp>>

\* process_complaint after ainvoke: "return final_state", or the except
\* clause's dict, which has no "errors" key
process_complaint_return(r) ==
    LET run == runs[r]
    IN
    /\ run.pc \in {"raised", "completed"}
    /\ runs' = [runs EXCEPT ![r].pc = "returned",
                  ![r].result =
                     IF run.pc = "completed"
                       THEN [workflow_status |-> "", error |-> "",
                             processing_steps |-> run.state.processing_steps,
                             has_errors |-> TRUE, errors |-> run.state.errors]
                     ELSE [workflow_status |-> "failed", error |-> run.exc,
                           processing_steps |-> << >>,
                           has_errors |-> FALSE, errors |-> << >>]]
    /\ UNCHANGED <<calc, adminVars, dataVars, resp, agent_communication_log>>

\* a create_complaint that fails the request when the workflow failed
create_complaint_status_strict(workflow_result) ==
    IF workflow_result.workflow_status = "failed" THEN 500 ELSE 200

\* create_complaint after process_complaint: the result is only logged
create_complaint_status(workflow_result) == 200

\* create_complaint after process_complaint: build and return the response
respond(r) ==
    LET run == runs[r]
        row == Row("complaints_raw", run.complaint_id,
                   complaints[run.complaint_id].tenant_id)
    IN
    /\ run.pc = "returned"
    /\ resp' = Response("create_complaint", run.caller, run.complaint_id,
                        create_complaint_status(run.result),
                        run.result.workflow_status, {row})
    /\ runs' = [runs EXCEPT ![r] = IdleRun]
    /\ UNCHANGED <<calc, adminVars, dataVars, agent_communication_log>>

\* ------------------------------------------- complaint intake and workflow
Next ==
    \/ \E r \in RunIds, tok \in tokens : create_complaint_commit(r, tok)
    \/ \E tok \in tokens, c \in 1..MaxComplaints : get_complaint_analysis(tok, c)
    \/ \E r \in RunIds, up \in BOOLEAN : process_complaint_begin(r, up)
    \/ \E r \in RunIds : stage_wrapper(r)
    \/ \E r \in RunIds : process_complaint_return(r)
    \/ \E r \in RunIds : respond(r)

Spec == Init /\ [][Next]_vars

\* ------------------------------------------------- the tenant-scoped routes
\* Every route that answers with tenant-owned rows, with one workflow run in
\* flight at a time (interleaved runs are the subject of Spec).
NextTenants ==
    \/ \E tok \in tokens : get_complaints(tok)
    \/ \E tok \in tokens, c \in 1..MaxComplaints : get_complaint(tok, c)
    \/ \E tok \in tokens : get_risk_assessments(tok)
    \/ \E tok \in tokens, c \in 1..MaxComplaints : get_risk_assessment(tok, c)
    \/ \E tok \in tokens : get_high_risk_alerts(tok)
    \/ \E tok \in tokens, c \in 1..MaxComplaints : create_solution(tok, c)
    \/ \E tok \in tokens : get_solutions(tok)
    \/ \E tok \in tokens, c \in 1..MaxComplaints : get_solution_by_complaint(tok, c)
    \/ \E tok \in tokens, c \in 1..MaxComplaints : get_solution_letter(tok, c)
    \/ \E tok \in tokens, c \in 1..MaxComplaints : create_feedback(tok, c, rating_le)
    \/ \E tok \in tokens : get_feedback(tok)
    \/ \E tok \in tokens, c \in 1..MaxComplaints : get_feedback_by_complaint(tok, c)
    \/ \E tok \in tokens, d \in Domains : create_tenant(tok, d)
    \/ \E tok \in tokens : get_audit_logs(tok)
    \/ \E tok \in tokens : create_complaint_commit(1, tok)
    \/ \E tok \in tokens, c \in 1..MaxComplaints : get_complaint_analysis(tok, c)
    \/ process_complaint_begin(1, FALSE)
    \/ stage_wrapper(1)
    \/ process_complaint_return(1)
    \/ respond(1)

SpecTenants == Init /\ [][NextTenants]_vars

\* --------------------------------------------- auth and admin state machine
NextAdmin ==
    \/ \E e \in Emails, p \in NewUserPasswords, t \in 1..MaxTenants, r \in NewUserRoles :
           register_user(e, p, t, r)
    \/ \E e \in Emails, p \in Passwords, t \in 1..MaxTenants : login_user(e, p, t)
    \/ \E tok \in tokens : get_current_user_info(tok)
    \/ \E tok \in tokens, d \in Domains : create_tenant(tok, d)
    \/ \E tok \in tokens, e \in Emails, p \in NewUserPasswords, r \in NewUserRoles :
           create_tenant_user(tok, e, p, r)
    \/ \E tok \in tokens, u \in 1..MaxUsers, r \in RoleInputs :
           update_user_role(tok, u, r)
    \/ \E tok \in tokens, u \in 1..MaxUsers : deactivate_user(tok, u)
    \/ \E tok \in tokens : get_audit_logs(tok)

SpecAdmin == Init /\ [][NextAdmin]_vars

\* ------------------------------------------------------------------ C1
Returned(r) == runs[r].pc = "returned"

\* C1: a run in which every LLM call fails still returns to its caller, and
\* what it returns has exactly six processing steps, one per agent in
\* pipeline order, each marked success or failed, and a non-empty errors list.
AllLlmFailRunReturnsSixSteps ==
    \A r \in RunIds :
        Returned(r) /\ ~runs[r].llm_up =>
            LET result == runs[r].result
            IN /\ Len(result.processing_steps) = Len(StageOrder)
               /\ \A i \in 1..Len(result.processing_steps) :
                      /\ result.processing_steps[i].agent = StageOrder[i]
                      /\ result.processing_steps[i].status \in {"success", "failed"}
               /\ result.has_errors
               /\ result.errors # << >>

\* ------------------------------------------------------------------ C2
TenantOps ==
    {"get_complaints", "get_complaint", "get_complaint_analysis", "create_complaint",
     "get_risk_assessments", "get_risk_assessment", "get_high_risk_alerts",
     "create_solution", "get_solutions", "get_solution_by_complaint",
     "get_solution_letter", "create_feedback", "get_feedback",
     "get_feedback_by_complaint", "get_audit_logs"}

ByComplaintOps ==
    {"get_complaint", "get_complaint_analysis", "get_risk_assessment",
     "create_solution", "get_solution_by_complaint", "get_solution_letter",
     "create_feedback", "get_feedback_by_complaint"}

NotFoundDetail(op) ==
    IF op = "get_solution_letter" THEN "Solution not found" ELSE "Complaint not found"

\* the complaint the response is about is not one of the caller's tenant:
\* it belongs to another tenant or does not exist
NotOwn(response) ==
    \/ response.target \notin ComplaintIds
    \/ complaints[response.target].tenant_id # users[response.caller].tenant_id

\* C2: no response to an authenticated user carries a row of another tenant,
\* and a request naming a complaint of another tenant is answered exactly as
\* one naming a complaint that does not exist: 404, the route's fixed
\* not-found detail, no rows.
TenantIsolation ==
    resp.op \in TenantOps /\ resp.caller \in UserIds =>
        /\ \A row \in resp.rows : row.tenant_id = users[resp.caller].tenant_id
        /\ resp.op \in ByComplaintOps /\ NotOwn(resp) =>
               /\ resp.status = 404
               /\ resp.detail = NotFoundDetail(resp.op)
               /\ resp.rows = NoRows

\* a caller named another tenant's existing complaint and was told not found,
\* while the other tenant holds complaint, risk and audit rows
CrossTenantRequestRefused ==
    /\ resp.op \in ByComplaintOps
    /\ resp.caller \in UserIds
    /\ resp.target \in ComplaintIds
    /\ complaints[resp.target].tenant_id # users[resp.caller].tenant_id
    /\ resp.status = 404
    /\ \E i \in 1..Len(audit_logs) :
           audit_logs[i].tenant_id = complaints[resp.target].tenant_id

\* ------------------------------------------------------------------ C3
InFlight(r) == runs[r].pc \in {"graph", "raised"}

\* C3: interleaved runs share no mutable state: while a run is in flight the
\* communication log it reads and reports is the one it started with, never
\* reset or replaced by another run, and holds only records of its complaint.
RunsShareNoCommunicationLog ==
    \A r \in RunIds :
        InFlight(r) =>
            /\ agent_communication_log.owner = r
            /\ \A i \in 1..Len(agent_communication_log.entries) :
                   agent_communication_log.entries[i].complaint_id = runs[r].complaint_id

\* ------------------------------------------------------------------ C4
IsPrefix(s, t) == Len(s) <= Len(t) /\ \A i \in 1..Len(s) : s[i] = t[i]

StepAgents(steps) == [i \in 1..Len(steps) |-> steps[i].agent]

\* C4: in one run the six stages execute once each in pipeline order, every
\* one of them also after an earlier stage failed; the agent names in
\* processing_steps are at every moment a prefix of that order.
SixStagesOnceEachInOrder ==
    \A r \in RunIds :
        /\ IsPrefix(runs[r].called, StageOrder)
        /\ IsPrefix(StepAgents(runs[r].state.processing_steps), StageOrder)
        /\ Returned(r) => runs[r].called = StageOrder

PublicOps == {"none", "register_user", "login_user"}

\* users for whom deactivate_user has committed is_active = False
Deactivated ==
    {mutations[i].entity :
        i \in {j \in 1..Len(mutations) : mutations[j].action = "user_deactivated"}}

\* C6: once deactivate_user has committed for user u, every request to a
\* protected route that presents a token of u is answered 401, and every
\* login that names u is answered 401.
RevocationByDeactivation ==
    /\ (resp.op \notin PublicOps /\ resp.caller \in Deactivated) => resp.status = 401
    /\ (resp.op = "login_user" /\ resp.target \in Deactivated) => resp.status = 401

\* a token issued to u before the deactivation is presented and refused
RevokedTokenRefused ==
    /\ resp.op = "get_current_user_info"
    /\ resp.caller \in Deactivated
    /\ \E tok \in tokens : tok.sub = resp.caller
    /\ resp.status = 401

\* ------------------------------------------------------------------ C7
AdminActions == {"tenant_created", "user_created", "user_role_updated", "user_deactivated"}

AdminAuditRows == SelectSeq(audit_logs, LAMBDA a : a.action \in AdminActions)

\* C7: the audit rows tagged with the four admin actions are, in order, the
\* committed admin mutations: one row per mutation, same action tag, the
\* affected entity's id in the payload.
AuditRowPerAdminMutation ==
    /\ Len(AdminAuditRows) = Len(mutations)
    /\ \A i \in 1..Len(mutations) :
          /\ AdminAuditRows[i].action = mutations[i].action
          /\ AdminAuditRows[i].entity = mutations[i].entity

\* a role update and a deactivation have both committed
TwoAdminMutationsLogged ==
    /\ \E i \in 1..Len(mutations) : mutations[i].action = "user_role_updated"
    /\ \E i \in 1..Len(mutations) : mutations[i].action = "user_deactivated"
    /\ Len(AdminAuditRows) = 2

\* ------------------------------------------------------------------ C8
\* the caller of the request answered by resp' passes Depends(require_admin_role)
CallerIsAdmin ==
    /\ resp'.caller \in UserIds
    /\ users[resp'.caller].is_active
    /\ users[resp'.caller].role \in {"admin", "regulator"}

\* C8: an admin or regulator who calls deactivate_user with their own id gets
\* a 400 and the call changes neither the users table nor the audit log.
SelfDeactivationRejected ==
    [][ (/\ resp' # resp
         /\ resp'.op = "deactivate_user"
         /\ resp'.target = resp'.caller
         /\ CallerIsAdmin)
        => (/\ resp'.status = 400
            /\ users' = users
            /\ audit_logs' = audit_logs) ]_vars

\* the regulator of tenant 2 tried to deactivate their own account
SelfDeactivationTried ==
    /\ resp.op = "deactivate_user"
    /\ resp.target = resp.caller
    /\ users[resp.caller].role = "regulator"
    /\ users[resp.caller].is_active
    /\ resp.status = 400

\* ------------------------------------------------------- feedback routes
NextFeedback ==
    \/ \E tok \in tokens, c \in 1..MaxComplaints, rating \in RatingInputs :
           create_feedback(tok, c, rating)
    \/ \E tok \in tokens : get_feedback(tok)
    \/ \E tok \in tokens, c \in 1..MaxComplaints : get_feedback_by_complaint(tok, c)

SpecFeedback == Init /\ [][NextFeedback]_vars

\* ------------------------------------------------------------------ C12
Answered(op, status) == resp'.op = op /\ resp'.status = status /\ resp' # resp

\* C12: every persisted feedback row has a rating from 1 to 5; a call that
\* is rejected with the validation error creates no row and is rejected
\* only for a rating outside 1..5, while an accepted call creates exactly
\* one row, which carries a rating from 1 to 5.
FeedbackRatingInRange ==
    /\ [](\A i \in 1..Len(feedback) :
              feedback[i].rating \in rating_ge..rating_le)
    /\ [][/\ Answered("create_feedback", 422) => feedback' = feedback
          /\ Answered("create_feedback", 200) =>
                 /\ Len(feedback') = Len(feedback) + 1
                 /\ feedback'[Len(feedback')].rating \in rating_ge..rating_le
                 /\ SubSeq(feedback', 1, Len(feedback)) = feedback]_vars

\* a rating of 0 was refused while the table holds an accepted row rated 5
RatingRefusedAndAccepted ==
    /\ resp.op = "create_feedback"
    /\ resp.status = 422
    /\ resp.detail = "rating: greater_than_equal"
    /\ \E i \in 1..Len(feedback) : feedback[i].rating = rating_le

\* ----------------------------------------------- risk history, any order
\* risk_scores rows are written outside this service (no statement of the
\* repository inserts one), so their created_at need not follow their ids
RiskTables ==
    [1..MaxRisk -> {RiskScore(c, c, "high", t) : c \in {1, 2}, t \in 1..MaxTime}]

InitLatest ==
    /\ tenants = << [domain |-> "d1", is_active |-> TRUE],
                    [domain |-> "d2", is_active |-> TRUE] >>
    /\ users = << NewUser("e1", "p1", 1, "admin"), NewUser("e2", "p1", 2, "regulator") >>
    /\ audit_logs = << >>
    /\ tokens = {[sub |-> 1, tenant_id |-> 1], [sub |-> 2, tenant_id |-> 2]}
    /\ mutations = << >>
    /\ resp = Response("none", 0, 0, 0, "", NoRows)
    /\ complaints = << ComplaintRaw(1, 1), ComplaintRaw(2, 2) >>
    /\ risk_scores \in RiskTables
    /\ solutions = << >>
    /\ feedback = << >>
    /\ runs = [r \in RunIds |-> IdleRun]
    /\ agent_communication_log = [owner |-> 0, entries |-> << >>]
    /\ calc = NoCalc

NextLatest ==
    \/ \E tok \in tokens, c \in 1..MaxComplaints : get_risk_assessment(tok, c)
    \/ \E tok \in tokens, c \in 1..MaxComplaints : get_complaint_analysis(tok, c)

SpecLatest == InitLatest /\ [][NextLatest]_vars

\* ------------------------------------------------------------------ C11
\* the caller's own complaint, with risk history in the caller's tenant
OwnRiskRows(response) ==
    IF response.caller \in UserIds /\ ~NotOwn(response)
      THEN ComplaintRows(risk_scores, response.target, response.caller)
    ELSE {}

\* C11: for a complaint with several risk rows, the single-assessment
\* endpoint and the complaint-analysis endpoint each answer with the row of
\* that complaint and tenant whose created_at is greatest, whatever the id
\* order of the rows.
LatestRowReturned ==
    resp.op \in {"get_risk_assessment", "get_complaint_analysis"}
    /\ OwnRiskRows(resp) # {} =>
        /\ resp.status = 200
        /\ \E i \in OwnRiskRows(resp) :
               /\ resp.rows = {Row("risk_scores", i, risk_scores[i].tenant_id)}
               /\ \A j \in OwnRiskRows(resp) :
                      risk_scores[j].created_at <= risk_scores[i].created_at

\* ------------------------------------------------------------- risk model
\* Scores are counted in hundredths: 30 is the code's 0.3, 15 its 0.15.
Min(a, b) == IF a <= b THEN a ELSE b

UrgencyLevels == <<"low", "medium", "high", "critical">>

\* urgency weights that do not tell the levels apart
urgency_weights_flat(urgency_level) == 10

\* urgency_weights.get(classification.get('urgency_level', 'medium'), 0.1)
urgency_weights(urgency_level) ==
    CASE urgency_level = "low" -> 0
      [] urgency_level = "medium" -> 10
      [] urgency_level = "high" -> 20
      [] urgency_level = "critical" -> 30
      [] OTHER -> 10

high_risk_issues == {"unauthorized_charges", "fraud", "discrimination"}

_calculate_rule_based_risk(features, sentiment, classification) ==
    Min(30
        + urgency_weights(classification.urgency_level)
        + (IF sentiment.sentiment = "negative" THEN 20 ELSE 0)
        + (IF sentiment.emotion = "angry" THEN 15 ELSE 0)
        + (IF classification.issue_category \in high_risk_issues THEN 20 ELSE 0)
        + (IF features.historical_complaints > 2 THEN 10 ELSE 0)
        + (IF features.amount_mentioned > 0 THEN 10 ELSE 0),
        100)

\* a categorisation whose upper threshold is exclusive
risk_category_exclusive(risk_score) ==
    IF risk_score > 70 THEN "high"
    ELSE IF risk_score >= 40 THEN "medium"
    ELSE "low"

\* predict_risk: "Determine risk category"
risk_category(risk_score) ==
    IF risk_score >= 70 THEN "high"
    ELSE IF risk_score >= 40 THEN "medium"
    ELSE "low"

_default_risk_assessment == [risk_score |-> 50, risk_category |-> "medium"]

\* predict_risk: extract_features returns {} when it failed ("if not
\* features"), otherwise the rule-based score is computed and categorised
predict_risk(features, sentiment, classification) ==
    LET risk_score == _calculate_rule_based_risk(features, sentiment, classification)
    IN IF ~features.extracted THEN _default_risk_assessment
       ELSE [risk_score |-> risk_score, risk_category |-> risk_category(risk_score)]

NoAssessment == [risk_score |-> -1, risk_category |-> "none"]

\* the inputs of one complaint, scored once per urgency level
RiskCalls ==
    [fn : {"predict_risk"},
     features : [historical_complaints : 0..MaxHistory, amount_mentioned : {0, 1},
                 extracted : BOOLEAN],
     sentiment : [sentiment : {"negative", "neutral"}, emotion : {"angry", "sad"}],
     issue_category : {"fraud", "billing_dispute"},
     assessments : {[i \in 1..Len(UrgencyLevels) |-> NoAssessment]}]

InitRisk == Seeded /\ calc \in RiskCalls

predict_risk_call(i) ==
    /\ calc.fn = "predict_risk"
    /\ calc.assessments[i] = NoAssessment
    /\ calc' = [calc EXCEPT !.assessments[i] =
                   predict_risk(calc.features, calc.sentiment,
                                [issue_category |-> calc.issue_category,
                                 urgency_level |-> UrgencyLevels[i]])]
    /\ UNCHANGED <<adminVars, dataVars, wfVars, resp>>

NextRisk == \E i \in 1..Len(UrgencyLevels) : predict_risk_call(i)

SpecRisk == InitRisk /\ [][NextRisk]_vars

\* ------------------------------------------------------------------ C13
Scored(i) == calc.fn = "predict_risk" /\ calc.assessments[i] # NoAssessment

\* ... by the rule-based function, which runs when features were extracted
RuleScored(i) == Scored(i) /\ calc.features.extracted

ScoreOf(i) == calc.assessments[i].risk_score

\* C13: with the other inputs fixed the rule-based score is strictly
\* increasing in urgency, low < medium < high < critical, and every score
\* lies in [0, 1].
RiskStrictlyIncreasingInUrgency ==
    \A i, j \in 1..Len(UrgencyLevels) :
        RuleScored(i) /\ RuleScored(j) /\ i < j =>
            /\ ScoreOf(i) < ScoreOf(j)
            /\ ScoreOf(i) \in 0..100
            /\ ScoreOf(j) \in 0..100

\* C13 as amended: the score never decreases with urgency and increases
\* strictly unless the score of the higher urgency has reached the cap 1.0;
\* every score lies in [0, 1].
RiskIncreasingInUrgencyUpToCap ==
    \A i, j \in 1..Len(UrgencyLevels) :
        RuleScored(i) /\ RuleScored(j) /\ i < j =>
            /\ ScoreOf(i) <= ScoreOf(j)
            /\ ScoreOf(i) < ScoreOf(j) \/ ScoreOf(j) = 100
            /\ ScoreOf(i) \in 0..100
            /\ ScoreOf(j) \in 0..100

\* all four urgencies scored for one complaint: low and medium below the
\* cap and apart, high and critical both at the cap
UrgenciesScoredUpToCap ==
    /\ \A i \in 1..Len(UrgencyLevels) : RuleScored(i)
    /\ ScoreOf(1) < ScoreOf(2)
    /\ ScoreOf(2) < 100
    /\ ScoreOf(3) = 100
    /\ ScoreOf(4) = 100

\* ------------------------------------------------------------------ C14
\* C14: every assessment predict_risk computes is categorised high iff its
\* score is at least 0.7, medium iff it is at least 0.4 and below 0.7, low
\* iff it is below 0.4.
RiskCategoryByThresholds ==
    \A i \in 1..Len(UrgencyLevels) :
        Scored(i) =>
            LET a == calc.assessments[i]
            IN /\ a.risk_category = "high" <=> a.risk_score >= 70
               /\ a.risk_category = "medium" <=> (a.risk_score >= 40 /\ a.risk_score < 70)
               /\ a.risk_category = "low" <=> a.risk_score < 40

\* one complaint scored exactly 0.4 (medium) and exactly 0.7 (high)
ThresholdScoresCategorised ==
    \E i, j \in 1..Len(UrgencyLevels) :
        /\ Scored(i) /\ ScoreOf(i) = 40 /\ calc.assessments[i].risk_category = "medium"
        /\ Scored(j) /\ ScoreOf(j) = 70 /\ calc.assessments[j].risk_category = "high"

\* ------------------------------------------------------- amount entities
\* An amount entity is text, here a sequence of characters. Both scoring
\* functions that read it use
\*     float(str(entities["amount"]).replace("$", "").replace(",", ""))
Digits == <<"0", "1", "2", "3", "4", "5", "6", "7", "8", "9">>

IsDigit(ch) == \E d \in 1..Len(Digits) : Digits[d] = ch

DigitValue(ch) == (CHOOSE d \in 1..Len(Digits) : Digits[d] = ch) - 1

RECURSIVE ToNat(_)
ToNat(s) ==
    IF s = << >> THEN 0
    ELSE 10 * ToNat(SubSeq(s, 1, Len(s) - 1)) + DigitValue(s[Len(s)])

\* a cleaning step that removes the currency sign but leaves the commas
strip_currency_only(text) == SelectSeq(text, LAMBDA ch : ch # "$")

\* .replace("$", "").replace(",", "")
strip_currency(text) == SelectSeq(text, LAMBDA ch : ch \notin {"$", ","})

Dots(s) == {i \in 1..Len(s) : s[i] = "."}

\* float() accepts digits with at most one decimal point (and forms no
\* input here uses: signs, exponents, inf, nan) ; anything else is ValueError
IsFloat(s) ==
    /\ \A i \in 1..Len(s) : IsDigit(s[i]) \/ s[i] = "."
    /\ Cardinality(Dots(s)) <= 1
    /\ \E i \in 1..Len(s) : IsDigit(s[i])

\* the value of float(s) in cents, for s with at most two decimals
FloatCents(s) ==
    LET dot == IF Dots(s) = {} THEN Len(s) + 1 ELSE CHOOSE i \in Dots(s) : TRUE
        whole == SubSeq(s, 1, dot - 1)
        frac == SubSeq(s, dot + 1, Len(s))
    IN 100 * ToNat(whole)
       + (IF Len(frac) = 0 THEN 0
          ELSE IF Len(frac) = 1 THEN 10 * ToNat(frac)
          ELSE ToNat(SubSeq(frac, 1, 2)))

\* entities.get("amount") is falsy for a missing or empty amount ; -1 stands
\* for "no amount read": absent, or ValueError caught by the except clause
NoAmount == -1

parse_amount(text) ==
    IF text = << >> THEN NoAmount
    ELSE IF ~IsFloat(strip_currency(text)) THEN NoAmount
    ELSE FloatCents(strip_currency(text))

\* the amounts an entity extraction yields, each with the sum of money it
\* denotes in cents (NoAmount when it denotes none)
AmountInputs ==
    {[text |-> << >>, cents |-> NoAmount],
     [text |-> <<"n", "/", "a">>, cents |-> NoAmount],
     [text |-> <<"$", "1", "0", "0">>, cents |-> 10000],
     [text |-> <<"1", "0", "0", ".", "5">>, cents |-> 10050],
     [text |-> <<"$", "1", ",", "0", "0", "0">>, cents |-> 100000],
     [text |-> <<"$", "1", ",", "0", "0", "0", ".", "0", "1">>, cents |-> 100001],
     [text |-> <<"1", "0", "0", "0", "0">>, cents |-> 1000000],
     [text |-> <<"$", "1", "5", ",", "0", "0", "0">>, cents |-> 1500000]}

\* ------------------------------------------------- escalation probability
\* Probabilities are counted in thousandths: a risk score in hundredths
\* times a multiplier in tenths ; 950 is the code's 0.95.
Max(a, b) == IF a >= b THEN a ELSE b

urgency_multipliers(urgency_level) ==
    CASE urgency_level = "low" -> 8
      [] urgency_level = "medium" -> 10
      [] urgency_level = "high" -> 13
      [] urgency_level = "critical" -> 16
      [] OTHER -> 10

\* a clamp that forgets the lower limit
clamp_upper_only(probability) == Min(probability, 950)

\* final_probability = min(base_probability + adjustments, 0.95)
\* return max(final_probability, 0.05)
clamp_probability(probability) == Max(Min(probability, 950), 50)

\* risk_score -1 stands for a prediction whose risk_score is not a number:
\* the multiplication raises TypeError and the except clause returns 0.5
_calculate_escalation_probability(risk_score, sentiment, classification, entities) ==
    LET amount == parse_amount(entities.amount)
        adjustments ==
            (IF sentiment.emotion = "angry" THEN 150
             ELSE IF sentiment.sentiment = "negative" THEN 100 ELSE 0)
            + (IF amount = NoAmount THEN 0
               ELSE IF amount > 1000000 THEN 200
               ELSE IF amount > 100000 THEN 100 ELSE 0)
            + classification.regulatory_flags * 50
        base_probability == risk_score * urgency_multipliers(classification.urgency_level)
    IN IF risk_score < 0 THEN 500
       ELSE clamp_probability(base_probability + adjustments)

NotCalled == -1

EscalationCalls ==
    [fn : {"_calculate_escalation_probability"},
     risk_score : {-1} \cup {5 * k : k \in 0..20},
     sentiment : [sentiment : {"negative", "neutral"}, emotion : {"angry", "sad"}],
     classification : [urgency_level : {"low", "medium", "high", "critical", "urgent"},
                       regulatory_flags : 0..MaxFlags],
     amount : AmountInputs,
     out : {NotCalled}]

InitEscalation == Seeded /\ calc \in EscalationCalls

escalation_call ==
    /\ calc.fn = "_calculate_escalation_probability"
    /\ calc.out = NotCalled
    /\ calc' = [calc EXCEPT !.out =
                   _calculate_escalation_probability(
                       calc.risk_score, calc.sentiment, calc.classification,
                       [amount |-> calc.amount.text])]
    /\ UNCHANGED <<adminVars, dataVars, wfVars, resp>>

NextEscalation == escalation_call

SpecEscalation == InitEscalation /\ [][NextEscalation]_vars

\* ------------------------------------------------------------------ C15
EscalationComputed ==
    calc.fn = "_calculate_escalation_probability" /\ calc.out # NotCalled

\* C15: whatever the risk score, urgency, sentiment, emotion, amount (also
\* unparseable or absent) and number of regulatory flags, the escalation
\* probability returned lies in [0.05, 0.95], limits included.
EscalationProbabilityBounded ==
    EscalationComputed => calc.out >= 50 /\ calc.out <= 950

\* both limits are met: a zero risk score with nothing added is raised to
\* 0.05, or a sum above 0.95 with an unparseable amount is cut to 0.95
EscalationLimitReached ==
    /\ EscalationComputed
    /\ calc.amount.cents = NoAmount
    /\ calc.amount.text # << >>
    /\ \/ calc.out = 50 /\ calc.risk_score = 0
       \/ calc.out = 950 /\ calc.risk_score = 100
                         /\ calc.classification.urgency_level = "critical"

\* --------------------------------------------------------- priority score
\* Scores in hundredths, amounts in cents.
sorter_urgency_weights(urgency_level) ==
    CASE urgency_level = "low" -> 0
      [] urgency_level = "medium" -> 20
      [] urgency_level = "high" -> 40
      [] urgency_level = "critical" -> 60
      [] OTHER -> 20

high_priority_issues == {"fraud", "unauthorized_charges", "discrimination"}

_calculate_priority_score(classification, entities) ==
    LET amount == parse_amount(entities.amount)
    IN Min(30
           + sorter_urgency_weights(classification.urgency_level)
           + (IF amount = NoAmount THEN 0
              ELSE IF amount > 1000000 THEN 30
              ELSE IF amount > 100000 THEN 20
              ELSE IF amount > 10000 THEN 10 ELSE 0)
           + (IF classification.issue_category \in high_priority_issues THEN 20 ELSE 0),
           100)

PriorityCalls ==
    [fn : {"_calculate_priority_score"},
     classification : [urgency_level : {"low", "medium", "high", "critical", "urgent"},
                       issue_category : high_priority_issues \cup {"billing_dispute"}],
     amount : AmountInputs,
     out : {NotCalled}]

InitPriority == Seeded /\ calc \in PriorityCalls

priority_call ==
    /\ calc.fn = "_calculate_priority_score"
    /\ calc.out = NotCalled
    /\ calc' = [calc EXCEPT !.out =
                   _calculate_priority_score(calc.classification,
                                             [amount |-> calc.amount.text])]
    /\ UNCHANGED <<adminVars, dataVars, wfVars, resp>>

NextPriority == priority_call

SpecPriority == InitPriority /\ [][NextPriority]_vars

\* ------------------------------------------------------------------ C16
PriorityComputed == calc.fn = "_calculate_priority_score" /\ calc.out # NotCalled

\* the score the claim gives for an urgency level, a sum of money and an issue
ClaimedPriority(urgency_level, cents, issue_category) ==
    LET weight == CASE urgency_level = "low" -> 0
                    [] urgency_level = "medium" -> 20
                    [] urgency_level = "high" -> 40
                    [] urgency_level = "critical" -> 60
        bonus == IF cents > 1000000 THEN 30
                 ELSE IF cents > 100000 THEN 20
                 ELSE IF cents > 10000 THEN 10 ELSE 0
        issue == IF issue_category \in {"fraud", "unauthorized_charges", "discrimination"}
                 THEN 20 ELSE 0
        sum == 30 + weight + bonus + issue
    IN IF sum > 100 THEN 100 ELSE sum

\* C16: for every urgency level, amount and issue category the priority
\* score is min(0.3 + urgency weight + amount-tier bonus + 0.2 for fraud,
\* unauthorized charges or discrimination, 1.0), where the tier is that of
\* the sum of money the amount text denotes; it always lies in [0.3, 1.0].
PriorityScoreAsTabulated ==
    PriorityComputed =>
        /\ calc.out >= 30 /\ calc.out <= 100
        /\ calc.classification.urgency_level \in {"low", "medium", "high", "critical"} =>
               calc.out = ClaimedPriority(calc.classification.urgency_level,
                                          calc.amount.cents,
                                          calc.classification.issue_category)

\* urgency critical, amount "$15,000", issue fraud: exactly 1.0
CriticalFraudFifteenThousand ==
    /\ PriorityComputed
    /\ calc.classification = [urgency_level |-> "critical", issue_category |-> "fraud"]
    /\ calc.amount.text = <<"$", "1", "5", ",", "0", "0", "0">>
    /\ calc.out = 100

\* ------------------------------------------------------- solution metrics
\* Confidences and probabilities in hundredths.
risk_adjustments(category) ==
    CASE category = "low" -> 10
      [] category = "medium" -> 0
      [] category = "high" -> -10
      [] category = "critical" -> -20
      [] OTHER -> 0

metrics_error_default_percent == [confidence |-> 5000, success_probability |-> 5000]

metrics_error_default == [confidence |-> 50, success_probability |-> 50]

SeqsUpTo(S, n) == UNION {[1..k -> S] : k \in 0..n}

\* state.risk_assessment.confidence that cannot be compared with 0.8 raises
\* TypeError inside the try block
\* customer_satisfaction None: the LEFT JOIN found no feedback row, or the
\* complaint has no solution ; "None >= 4" raises TypeError
NoRating == -1

compares_none(similar_complaints) ==
    \E i \in 1..Len(similar_complaints) :
        similar_complaints[i].customer_satisfaction = NoRating

_calculate_solution_metrics(state) ==
    IF ~state.risk_assessment.confidence_is_number THEN metrics_error_default
    ELSE IF compares_none(state.similar_complaints) THEN metrics_error_default
    ELSE
    LET similar_complaints == state.similar_complaints
        base_confidence ==
            75 + (IF similar_complaints # <<>> THEN 10 ELSE 0)
               + (IF state.risk_assessment.confidence > 80 THEN 5 ELSE 0)
               + (IF state.classification.confidence_score > 80 THEN 5 ELSE 0)
        successful_cases ==
            SelectSeq(similar_complaints, LAMBDA c : c.customer_satisfaction >= 4)
        success_probability ==
            (IF similar_complaints # <<>>
             THEN (Len(successful_cases) * 100) \div Len(similar_complaints)
             ELSE 75)
            + risk_adjustments(state.risk_assessment.risk_category)
    IN [confidence |-> Min(base_confidence, 100),
        success_probability |-> Max(Min(success_probability, 95), 5)]

NoMetrics == [confidence |-> NotCalled, success_probability |-> NotCalled]

MetricsCalls ==
    [fn : {"_calculate_solution_metrics"},
     state : [similar_complaints : SeqsUpTo([customer_satisfaction : {NoRating, 3, 4}],
                                            MaxSimilar),
              risk_assessment : [confidence : {0, 80, 85, 100},
                                 confidence_is_number : BOOLEAN,
                                 risk_category : {"low", "high", "critical"}],
              classification : [confidence_score : {0, 80, 90}]],
     out : {NoMetrics}]

InitMetrics == Seeded /\ calc \in MetricsCalls

metrics_call ==
    /\ calc.fn = "_calculate_solution_metrics"
    /\ calc.out = NoMetrics
    /\ calc' = [calc EXCEPT !.out = _calculate_solution_metrics(calc.state)]
    /\ UNCHANGED <<adminVars, dataVars, wfVars, resp>>

NextMetrics == metrics_call

SpecMetrics == InitMetrics /\ [][NextMetrics]_vars

\* ------------------------------------------------------------------ C17
MetricsComputed == calc.fn = "_calculate_solution_metrics" /\ calc.out # NoMetrics

\* C17: whatever pipeline state the solution helper is given, the confidence
\* in solution_metrics never exceeds 1.0, with any of the three positive
\* adjustments applied and also when the computation falls back to its
\* error default.
SolutionConfidenceAtMostOne == MetricsComputed => calc.out.confidence <= 100

\* all three adjustments applied in one run
AllAdjustmentsApplied ==
    /\ MetricsComputed
    /\ calc.state.similar_complaints # <<>>
    /\ calc.state.risk_assessment.confidence_is_number
    /\ calc.state.risk_assessment.confidence > 80
    /\ calc.state.classification.confidence_score > 80
    /\ calc.out.confidence = 95

\* ------------------------------------------------------------------ C18
EmailInTenant(email, tenant_id) ==
    \E i \in UserIds : users[i].email = email /\ users[i].tenant_id = tenant_id

TenantUsable(tenant_id) ==
    tenant_id \in 1..Len(tenants) /\ tenants[tenant_id].is_active

\* C18: register_user rejects a request exactly when a user row with the
\* same email exists in the target tenant (active or deactivated) or the
\* target tenant does not exist or is inactive, and then creates no row;
\* otherwise, also when the email exists only in another tenant, it creates
\* exactly one user row with a hashed password and returns its profile.
RegisterRejectsExactlyOnTenantConflict ==
    [][\A e \in Emails, p \in NewUserPasswords, t \in 1..MaxTenants, r \in NewUserRoles :
          register_user(e, p, t, r) =>
              IF EmailInTenant(e, t) \/ ~TenantUsable(t)
              THEN resp'.status >= 400 /\ users' = users
              ELSE /\ resp'.status = 200
                   /\ Len(users') = Len(users) + 1
                   /\ SubSeq(users', 1, Len(users)) = users
                   /\ users'[Len(users')] = NewUser(e, p, t, r)
                   /\ resp'.rows = {Row("users", Len(users'), t)}]_vars

\* ------------------------------------------------------------ POST /token
\* A username is a sequence of symbols: an address "e1@host" of tenant 1 is
\* submitted as <<"e1", "@", "host", "_", "1">>.  users[i].email = e stands
\* for the address <<e, "@", "host">>.
Symbols(text) == {text[i] : i \in 1..Len(text)}

\* str.split(sep)
RECURSIVE Split(_, _)
Split(text, sep) ==
    IF sep \notin Symbols(text) THEN <<text>>
    ELSE LET i == CHOOSE j \in 1..Len(text) :
                      text[j] = sep /\ \A k \in 1..(j - 1) : text[k] # sep
         IN <<SubSeq(text, 1, i - 1)>> \o Split(SubSeq(text, i + 1, Len(text)), sep)

EmailText(email) == <<email, "@", "host">>

EmailOf(text) ==
    IF \E e \in Emails : EmailText(e) = text
    THEN CHOOSE e \in Emails : EmailText(e) = text
    ELSE "nobody"

\* tenant ids are written in decimal ; any other text names no tenant
TenantOf(text) ==
    IF text # <<>> /\ \A i \in 1..Len(text) : IsDigit(text[i]) THEN ToNat(text) ELSE 0

username_email(username) ==
    LET email_parts == Split(username, "@")
    IN EmailOf(email_parts[1] \o <<"@">> \o Split(email_parts[2], "_")[1])

username_tenant_id(username) ==
    LET email_parts == Split(username, "@")
        pieces == Split(email_parts[2], "_")
    IN TenantOf(IF "_" \in Symbols(email_parts[2]) THEN pieces[Len(pieces)]
                ELSE <<"default">>)

username_valid(username) ==
    "@" \in Symbols(username) /\ Len(Split(username, "@")) = 2

\* status code and body detail of POST /token
token_reply(username, password) ==
    IF ~username_valid(username)
    THEN [status |-> 400, detail |-> "Invalid username format"]
    ELSE IF authenticate_user(username_email(username), password,
                              username_tenant_id(username)) = 0
    THEN [status |-> 401, detail |-> "Incorrect email or password"]
    ELSE [status |-> 200, detail |-> ""]

login_for_access_token(username, password) ==
    LET reply == token_reply(username, password)
        valid == username_valid(username)
        email == IF valid THEN username_email(username) ELSE "nobody"
        tenant_id == IF valid THEN username_tenant_id(username) ELSE 0
        user == authenticate_user(email, password, tenant_id)
        named == UserNamed(email, tenant_id)
    IN
    /\ IF reply.status # 200
         THEN /\ resp' = Response("login_for_access_token", 0, named, reply.status,
                                  reply.detail, NoRows)
              /\ UNCHANGED tokens
       ELSE /\ tokens' = tokens \cup {[sub |-> user, tenant_id |-> users[user].tenant_id]}
            /\ resp' = Response("login_for_access_token", 0, named, reply.status,
                                reply.detail,
                                {Row("users", user, users[user].tenant_id)})
    /\ UNCHANGED <<calc, tenants, users, audit_logs, mutations, dataVars, wfVars>>

Usernames ==
    {<<e, "@", "host", "_", t>> : e \in Emails, t \in {"1", "2"}}
    \cup {<<"e1">>, <<"e1", "@", "host">>, <<"e1", "@", "host", "@", "1">>,
          <<"e1", "@", "host", "_", "x">>}

NextLogin ==
    \/ \E e \in Emails, p \in NewUserPasswords, t \in 1..MaxTenants, r \in NewUserRoles :
           register_user(e, p, t, r)
    \/ \E tok \in tokens, u \in 1..MaxUsers : deactivate_user(tok, u)
    \/ \E e \in Emails, p \in Passwords, t \in 1..MaxTenants : login_user(e, p, t)
    \/ \E u \in Usernames, p \in Passwords : login_for_access_token(u, p)

SpecLogin == Init /\ [][NextLogin]_vars

\* ------------------------------------------------------------------ C19
\* why authenticate_user finds no match for the credentials, "" when it does
FailureReason(email, password, tenant_id) ==
    LET named == UserNamed(email, tenant_id)
    IN IF named = 0 THEN "no_user"
       ELSE IF ~users[named].is_active THEN "deactivated"
       ELSE IF ~verify_password(password, users[named].hashed_password)
       THEN "wrong_password"
       ELSE ""

LoginInputs == Emails \X Passwords \X (1..MaxTenants)

TokenInputs == {u \in Usernames : username_valid(u)} \X Passwords

LoginFailure(a) == FailureReason(a[1], a[2], a[3]) # ""

TokenFailure(a) ==
    FailureReason(username_email(a[1]), a[2], username_tenant_id(a[1])) # ""

\* C19: on each login endpoint, two requests whose credentials fail for
\* different reasons (no user with that email in the tenant, wrong password
\* for an existing user, a deactivated user) get the same status code and
\* the same body, so the caller cannot tell which case occurred.
LoginFailuresIndistinguishable ==
    /\ \A a, b \in LoginInputs :
           LoginFailure(a) /\ LoginFailure(b) =>
               login_user_reply(a[1], a[2], a[3]) = login_user_reply(b[1], b[2], b[3])
    /\ \A a, b \in TokenInputs :
           TokenFailure(a) /\ TokenFailure(b) =>
               token_reply(a[1], a[2]) = token_reply(b[1], b[2])
    /\ \A a \in LoginInputs : LoginFailure(a) => login_user_reply(a[1], a[2], a[3]).status = 401
    /\ \A a \in TokenInputs : TokenFailure(a) => token_reply(a[1], a[2]).status = 401

\* a login naming a deactivated user has just been refused, while a missing
\* user and a wrong password are both possible inputs in the same state
ThreeFailureReasonsAtOnce ==
    /\ resp.op \in {"login_user", "login_for_access_token"}
    /\ resp.status = 401
    /\ resp.target # 0
    /\ ~users[resp.target].is_active
    /\ {FailureReason(a[1], a[2], a[3]) : a \in LoginInputs}
           = {"", "no_user", "deactivated", "wrong_password"}

\* ------------------------------------------------------------------ C20
\* C20: get_complaint_analysis for a complaint of the caller's tenant that
\* has no label or no risk history (no complaint has a label: nothing
\* inserts one) runs the workflow and answers with the entities,
\* classification, risk assessment, similar complaints and benchmarks of the
\* final state of that run.
AnalysisAnswersFromWorkflowRun ==
    (/\ resp.op = "get_complaint_analysis"
     /\ resp.caller \in UserIds
     /\ ~NotOwn(resp)) =>
        /\ resp.status = 200
        /\ \E r \in RunIds : /\ runs[r].op = "get_complaint_analysis"
                             /\ runs[r].complaint_id = resp.target
                             /\ Returned(r)

\* ---------------------------------------------------------- agent pipeline
\* The six agents' process(state, db), applied in graph order to one
\* ComplaintState.  A text is a sequence of words and "" is << >> ; a dict is
\* a function on its keys and {} the function on no key.
EmptyDict == [k \in {} |-> 0]

\* dict.get(k, default)
Get(d, k, default) == IF k \in DOMAIN d THEN d[k] ELSE default

\* the entity type the analyzer recognises in a word, "" for none
RecognizedEntity(word) ==
    CASE word = "jane@mail.com" -> "EMAIL_ADDRESS"
      [] word = "555-0100" -> "PHONE_NUMBER"
      [] OTHER -> ""

\* AnalyzerEngine.analyze: one result per recognised span
analyze(text) == {i \in 1..Len(text) : RecognizedEntity(text[i]) # ""}

\* an anonymizer that returns the text as it was given
anonymize_nothing(text, analyzer_results) == text

\* AnonymizerEngine.anonymize: each span is replaced by "<ENTITY_TYPE>"
anonymize(text, analyzer_results) ==
    [i \in 1..Len(text) |->
        IF i \in analyzer_results THEN "<" \o RecognizedEntity(text[i]) \o ">"
        ELSE text[i]]

\* process_complaint: initial_state
pipeline_state(narrative) ==
    [complaint_id |-> 1, narrative |-> narrative, entities |-> EmptyDict,
     sentiment |-> EmptyDict, classification |-> EmptyDict,
     similar_complaints |-> << >>, benchmarks |-> EmptyDict,
     risk_assessment |-> EmptyDict, solution |-> EmptyDict,
     redacted_narrative |-> << >>, pii_detected |-> FALSE,
     processing_steps |-> << >>, errors |-> << >>]

\* state["processing_steps"].append(step), and for a failed step
\* state["errors"].append(...) before it
record_step(state, agent, status) ==
    [state EXCEPT
       !.processing_steps = Append(@, [agent |-> agent, status |-> status]),
       !.errors = IF status = "failed" THEN Append(@, agent) ELSE @]

complaint_reader_process(p) ==
    LET state == p.state
        pii_results == analyze(state.narrative)
        redacted_narrative == anonymize(state.narrative, pii_results)
        sent == p.llm_calls \o
                <<[fn |-> "extract_entities", text |-> redacted_narrative],
                  [fn |-> "analyze_sentiment", text |-> redacted_narrative]>>
        updated == [state EXCEPT !.entities = p.llm.entities,
                                 !.sentiment = p.llm.sentiment,
                                 !.redacted_narrative = redacted_narrative,
                                 !.pii_detected = pii_results # {}]
        confidence == Get(p.llm.sentiment, "confidence", [type |-> "float", value |-> 0])
    IN IF p.db
         THEN \* store_complaint_embedding: create_embedding, then "text(...)"
              \* where text is the function's own str parameter: TypeError
              [p EXCEPT !.llm_calls = Append(sent, [fn |-> "create_embedding",
                                                    text |-> redacted_narrative]),
                        !.state = record_step(state, "complaint_reader", "failed")]
       ELSE IF confidence.type # "float"
         THEN \* the success step is appended, then the message's
              \* "{sentiment.get('confidence', 0.0):.2f}" raises ValueError
              [p EXCEPT !.llm_calls = sent,
                        !.state = record_step(
                                      record_step(updated, "complaint_reader", "success"),
                                      "complaint_reader", "failed")]
       ELSE [p EXCEPT !.llm_calls = sent,
                      !.state = record_step(updated, "complaint_reader", "success")]

_check_regulatory_flags(narrative) ==
    IF \E i \in 1..Len(narrative) : narrative[i] = "harassment"
    THEN {"fair_debt_collection"} ELSE {}

\* substring tests on the reply's words are equalities here
_calculate_confidence(classification, entities) ==
    Min(50
        + (IF /\ Get(entities, "product", "") # ""
              /\ Get(entities, "product", "") = Get(classification, "product_category", "")
           THEN 20 ELSE 0)
        + (IF /\ Get(entities, "issue", "") # ""
              /\ Get(entities, "issue", "") = Get(classification, "issue_category", "")
           THEN 20 ELSE 0)
        + (IF Get(classification, "urgency_level", "medium") \in {"high", "critical"}
           THEN 10 ELSE 0),
        100)

\* enrichment keys no later stage reads (subcategories, complexity
\* indicators, priority score, validation result) are left out of the dict
complaint_sorter_process(p) ==
    LET state == p.state
        narrative == Get(state, "redacted_narrative", state.narrative)
        classification == p.llm.classification
        enriched ==
            [k \in DOMAIN classification \cup {"confidence_score", "regulatory_flags"} |->
                CASE k = "confidence_score" ->
                         _calculate_confidence(classification, state.entities)
                  [] k = "regulatory_flags" -> _check_regulatory_flags(narrative)
                  [] OTHER -> classification[k]]
    IN [p EXCEPT !.llm_calls = Append(@, [fn |-> "classify_complaint",
                                          text |-> narrative]),
                 !.state = record_step([state EXCEPT !.classification = enriched],
                                       "complaint_sorter", "success")]

_get_mock_similar_complaints ==
    <<[customer_satisfaction |-> 5], [customer_satisfaction |-> 4]>>

\* overall_success_rate in hundredths
_analyze_success_patterns(similar_complaints) ==
    IF similar_complaints = << >> THEN 75
    ELSE IF compares_none(similar_complaints) THEN 75
    ELSE (Len(SelectSeq(similar_complaints,
                        LAMBDA c : c.customer_satisfaction >= 4)) * 100)
         \div Len(similar_complaints)

stats_finder_process(p) ==
    LET state == p.state
        narrative == Get(state, "redacted_narrative", state.narrative)
        similar_complaints == IF ~p.db THEN _get_mock_similar_complaints
                              ELSE p.similar_rows
        stats == [success_patterns |->
                     [overall_success_rate |->
                          _analyze_success_patterns(similar_complaints)]]
    IN [p EXCEPT !.llm_calls = IF p.db
                               THEN Append(@, [fn |-> "create_embedding",
                                               text |-> narrative])
                               ELSE @,
                 !.state = record_step([state EXCEPT
                                          !.similar_complaints = similar_complaints,
                                          !.benchmarks = stats],
                                       "stats_finder", "success")]

\* a fallback assessment labelled with the classification's top urgency
_get_default_risk_assessment_critical ==
    [risk_score |-> 50, risk_category |-> "critical", confidence |-> 50]

\* the checker's fallback when _predict_risk raised
_get_default_risk_assessment ==
    [risk_score |-> 50, risk_category |-> "medium", confidence |-> 50]

risk_checker_process(p) ==
    LET state == p.state
        sentiment == [sentiment |-> Get(state.sentiment, "sentiment", ""),
                      emotion |-> Get(state.sentiment, "emotion", "")]
        classification ==
            [urgency_level |-> Get(state.classification, "urgency_level", "medium"),
             issue_category |-> Get(state.classification, "issue_category", "")]
        features == [historical_complaints |-> 0, amount_mentioned |-> 0,
                     extracted |-> p.fault # "extract_features"]
        risk_assessment == predict_risk(features, sentiment, classification)
        risk_prediction ==
            IF p.fault = "_predict_risk" THEN _get_default_risk_assessment
            ELSE [risk_score |-> risk_assessment.risk_score,
                  risk_category |-> risk_assessment.risk_category,
                  confidence |-> IF features.extracted THEN 85 ELSE 50]
    IN [p EXCEPT !.state = record_step([state EXCEPT
                                          !.risk_assessment = risk_prediction],
                                       "risk_checker", "success")]

\* the actions as <<name, dependencies>> records, in list order
_generate_follow_up_actions(category, resolution_strategy, regulatory_flags) ==
    <<[action |-> "send_response_letter", dependencies |-> {}],
      [action |-> "update_complaint_status", dependencies |-> {"send_response_letter"}]>>
    \o (IF category = "high"
        THEN <<[action |-> "supervisor_review", dependencies |-> {}],
               [action |-> "customer_callback",
                dependencies |-> {"send_response_letter"}]>>
        ELSE << >>)
    \o (IF "refund" \in resolution_strategy
        THEN <<[action |-> "process_refund", dependencies |-> {"supervisor_review"}]>>
        ELSE << >>)
    \o (IF "investigation" \in resolution_strategy
        THEN <<[action |-> "conduct_investigation", dependencies |-> {}]>>
        ELSE << >>)
    \o (IF regulatory_flags # {}
        THEN <<[action |-> "compliance_documentation",
                dependencies |-> {"update_complaint_status"}]>>
        ELSE << >>)

solution_helper_process(p) ==
    LET state == p.state
        category == Get(state.risk_assessment, "risk_category", "medium")
        resolution_strategy == Get(p.llm.solution, "resolution_strategy", {})
        follow_up_actions ==
            _generate_follow_up_actions(
                category, resolution_strategy,
                Get(state.classification, "regulatory_flags", {}))
        solution_metrics ==
            _calculate_solution_metrics(
                [similar_complaints |-> state.similar_complaints,
                 risk_assessment |->
                     [confidence |-> Get(state.risk_assessment, "confidence", 0),
                      confidence_is_number |-> TRUE,
                      risk_category |-> category],
                 classification |->
                     [confidence_score |->
                          Get(state.classification, "confidence_score", 0)]])
        solution == [resolution_strategy |-> resolution_strategy,
                     follow_up_actions |-> follow_up_actions,
                     solution_metrics |-> solution_metrics]
    IN [p EXCEPT !.llm_calls = Append(@, [fn |-> "generate_solution",
                                          text |-> state.narrative]),
                 !.state = record_step([state EXCEPT !.solution = solution],
                                       "solution_helper", "success")]

\* completion_summary divides by len(state["processing_steps"])
feedback_logger_process(p) ==
    IF p.state.processing_steps = << >>
    THEN [p EXCEPT !.state = record_step(p.state, "feedback_logger", "failed")]
    ELSE [p EXCEPT !.inserted = IF p.db THEN Append(@, "audit_logs") ELSE @,
                   !.state = record_step(p.state, "feedback_logger", "success")]

\* one run of the pipeline: whether the agents are given a session, what
\* the provider's JSON replies hold (each {} when the call failed), which
\* risk helper raises, the rows the similarity search finds, the narrative
InitAgents ==
    LET Words == {"harassment", "jane@mail.com", "555-0100"}
        LlmReplies ==
            [entities : {[product |-> "card", issue |-> "fraud"]},
             sentiment : {[sentiment |-> "negative", emotion |-> "angry",
                           confidence |-> [type |-> "float", value |-> 90]],
                          [sentiment |-> "negative", emotion |-> "angry",
                           confidence |-> [type |-> "str", value |-> 0]],
                          [sentiment |-> "neutral", emotion |-> "other"]},
             classification : {[product_category |-> "card",
                                issue_category |-> "fraud",
                                urgency_level |-> "critical"],
                               [product_category |-> "loan",
                                issue_category |-> "billing_dispute",
                                urgency_level |-> "low"]},
             solution : {[resolution_strategy |-> {"refund"}],
                         [resolution_strategy |-> {"investigation"}],
                         [resolution_strategy |-> {}]}]
        LlmDown == [entities |-> EmptyDict, sentiment |-> EmptyDict,
                    classification |-> EmptyDict, solution |-> EmptyDict]
    IN /\ Seeded
       /\ \E db \in BOOLEAN, llm \in LlmReplies \cup {LlmDown},
             fault \in {"", "extract_features", "_predict_risk"},
             narrative \in UNION {[1..k -> Words] : k \in 1..MaxWords} :
            \E rows \in IF db
                        THEN SeqsUpTo([customer_satisfaction : {NoRating, 3, 5}],
                                      MaxSimilar)
                        ELSE {<< >>} :
                calc = [fn |-> "pipeline", db |-> db, llm |-> llm,
                        fault |-> fault, similar_rows |-> rows, stage |-> 1,
                        state |-> pipeline_state(narrative),
                        llm_calls |-> << >>, inserted |-> << >>]

\* the graph's next node calls its agent's process on the state
agent_step ==
    LET agent == StageOrder[calc.stage]
        result == CASE agent = "complaint_reader" -> complaint_reader_process(calc)
                    [] agent = "complaint_sorter" -> complaint_sorter_process(calc)
                    [] agent = "stats_finder" -> stats_finder_process(calc)
                    [] agent = "risk_checker" -> risk_checker_process(calc)
                    [] agent = "solution_helper" -> solution_helper_process(calc)
                    [] agent = "feedback_logger" -> feedback_logger_process(calc)
    IN /\ calc.fn = "pipeline"
       /\ calc.stage <= Len(StageOrder)
       /\ calc' = [result EXCEPT !.stage = @ + 1]
       /\ UNCHANGED <<adminVars, dataVars, wfVars, resp>>

SpecAgents == InitAgents /\ [][agent_step]_vars

\* ------------------------------------------------------------------ C21
PipelineAt(k) == calc.fn = "pipeline" /\ calc.stage > k

StepsOf(agent) ==
    {i \in 1..Len(calc.state.processing_steps) :
        calc.state.processing_steps[i].agent = agent}

Succeeded(agent) ==
    \E i \in StepsOf(agent) : calc.state.processing_steps[i].status = "success"

\* C21: after a successful reader stage pii_detected is true iff at least
\* one PII span was detected in the narrative; the redacted narrative holds
\* none of the detected literals, and equals the narrative when no span was
\* detected.
ReaderRedactsDetectedPii ==
    (PipelineAt(1) /\ Succeeded("complaint_reader")) =>
        LET state == calc.state
            detected == analyze(state.narrative)
        IN /\ state.pii_detected <=> detected # {}
           /\ \A i \in detected :
                  state.narrative[i] \notin Symbols(state.redacted_narrative)
           /\ detected = {} => state.redacted_narrative = state.narrative

\* an email address and a phone number were detected and masked
EmailAndPhoneRedacted ==
    /\ PipelineAt(1)
    /\ Succeeded("complaint_reader")
    /\ calc.state.narrative = <<"jane@mail.com", "555-0100">>
    /\ calc.state.redacted_narrative = <<"<EMAIL_ADDRESS>", "<PHONE_NUMBER>">>
    /\ calc.state.pii_detected

\* ------------------------------------------------------------------ C22
Finished == calc.fn = "pipeline" /\ calc.stage > Len(StageOrder)

\* C22: after a run in which the sorter, the risk checker and the solution
\* helper succeeded, a ComplaintLabel row, a RiskScore row and a Solution
\* row have been inserted for the complaint.
RunOutputsPersisted ==
    (/\ Finished
     /\ Succeeded("complaint_sorter")
     /\ Succeeded("risk_checker")
     /\ Succeeded("solution_helper")) =>
        {"complaint_labels", "risk_scores", "solutions"} \subseteq
            Symbols(calc.inserted)

\* ------------------------------------------------------------------ C23
ClassifyCalls ==
    {i \in 1..Len(calc.llm_calls) : calc.llm_calls[i].fn = "classify_complaint"}

\* C23: the text the sorter passes to classify_complaint is the redacted
\* narrative when the reader produced one and the raw narrative otherwise,
\* also when the reader failed; it is never empty for a non-empty narrative.
SorterNeverClassifiesEmptyText ==
    \A i \in ClassifyCalls :
        /\ calc.llm_calls[i].text # << >>
        /\ calc.llm_calls[i].text =
               IF Succeeded("complaint_reader")
               THEN calc.state.redacted_narrative
               ELSE calc.state.narrative

\* ------------------------------------------------------------------ C24
NarrativeCalls ==
    {i \in 1..Len(calc.llm_calls) :
        calc.llm_calls[i].fn \in {"extract_entities", "analyze_sentiment",
                                  "classify_complaint", "generate_solution"}}

\* C24: every narrative passed to extract_entities, analyze_sentiment,
\* classify_complaint and generate_solution is free of the detected PII
\* literals: it is the reader's redacted narrative, never the raw one.
OnlyRedactedTextSentToLlm ==
    calc.fn = "pipeline" =>
        LET narrative == calc.state.narrative
            detected == analyze(narrative)
        IN \A i \in NarrativeCalls :
               /\ \A j \in detected :
                      narrative[j] \notin Symbols(calc.llm_calls[i].text)
               /\ detected # {} => calc.llm_calls[i].text # narrative

\* ------------------------------------------------------------------ C25
FailedSteps ==
    {i \in 1..Len(calc.state.processing_steps) :
        calc.state.processing_steps[i].status = "failed"}

\* C25: at every point of a run each finished stage has contributed exactly
\* one entry to processing_steps, and errors has as many entries as there
\* are processing steps with status failed.
OneStepPerFinishedStage ==
    calc.fn = "pipeline" =>
        /\ \A k \in 1..Len(StageOrder) :
               Cardinality(StepsOf(StageOrder[k])) =
                   IF k < calc.stage THEN 1 ELSE 0
        /\ Len(calc.state.errors) = Cardinality(FailedSteps)

\* ------------------------------------------------------------------ C26
ReceivedBy(r) ==
    {i \in 1..Len(runs[r].state.messages) : runs[r].state.messages[i] = "received"}

\* C26: in one run every stage after the reader gets a received-message
\* entry before its agent runs, and when the run has returned the
\* communication log holds exactly six records, one per stage in graph
\* order, each addressed to the next stage and the last to workflow_complete.
CommunicationChainComplete ==
    \A r \in RunIds :
        /\ Cardinality(ReceivedBy(r)) =
               Cardinality({k \in 1..Len(runs[r].called) :
                               runs[r].called[k] # entry_point})
        /\ (Returned(r) /\ agent_communication_log.owner = r) =>
               LET log == agent_communication_log.entries
               IN /\ Len(log) = Len(StageOrder)
                  /\ \A k \in 1..Len(log) :
                         /\ log[k].from_agent = StageOrder[k]
                         /\ log[k].to_agent = to_agent(StageOrder[k])
                         /\ log[k].complaint_id = runs[r].complaint_id

\* ------------------------------------------------------------------ C27
\* (entries with satisfaction >= 4) / (entries) in hundredths, an entry
\* without a recorded satisfaction counting as not successful
SuccessFraction(similar_complaints) ==
    (Cardinality({i \in 1..Len(similar_complaints) :
                     /\ similar_complaints[i].customer_satisfaction # NoRating
                     /\ similar_complaints[i].customer_satisfaction >= 4}) * 100)
    \div Len(similar_complaints)

\* C27: for every non-empty similar-complaints list, also one with entries
\* that have no recorded satisfaction, the stats finder's overall success
\* rate is the fraction of entries with satisfaction >= 4 and the solution
\* helper's success probability is that fraction plus the risk adjustment,
\* kept within 5..95 percent.
SuccessRateIsFractionOfSatisfied ==
    LET state == calc.state
        similar_complaints == state.similar_complaints
    IN (calc.fn = "pipeline" /\ similar_complaints # << >>) =>
          /\ Succeeded("stats_finder") =>
                 state.benchmarks.success_patterns.overall_success_rate =
                     SuccessFraction(similar_complaints)
          /\ Succeeded("solution_helper") =>
                 state.solution.solution_metrics.success_probability =
                     Max(Min(SuccessFraction(similar_complaints)
                             + risk_adjustments(state.risk_assessment.risk_category),
                             95), 5)

\* ------------------------------------------------------------------ C28
RiskSet == calc.fn = "pipeline" /\ "risk_category" \in DOMAIN calc.state.risk_assessment

\* C28: once the run has set risk_assessment, its risk_category is low,
\* medium or high and is the category the thresholds give for its
\* risk_score (high from 0.7, medium from 0.4, low below), also when the
\* risk model or the risk checker substituted its default assessment.
RiskCategoryAgreesWithScore ==
    RiskSet =>
        LET risk_assessment == calc.state.risk_assessment
        IN /\ risk_assessment.risk_category \in {"low", "medium", "high"}
           /\ risk_assessment.risk_category = "high" <=>
                  risk_assessment.risk_score >= 70
           /\ risk_assessment.risk_category = "medium" <=>
                  (40 <= risk_assessment.risk_score
                   /\ risk_assessment.risk_score < 70)

\* the risk checker substituted its default assessment
CheckerDefaultAssessed ==
    /\ RiskSet
    /\ calc.fault = "_predict_risk"
    /\ calc.state.risk_assessment.risk_score = 50
    /\ calc.state.risk_assessment.risk_category = "medium"

\* ------------------------------------------------------------------ C29
\* C29: in the follow-up action list of a generated solution every name in
\* an action's dependencies is the name of an action of the same list.
DependenciesNameListedActions ==
    (calc.fn = "pipeline" /\ Succeeded("solution_helper")) =>
        LET actions == calc.state.solution.follow_up_actions
        IN \A i \in 1..Len(actions) :
               \A dependency \in actions[i].dependencies :
                   \E j \in 1..Len(actions) : actions[j].action = dependency

\* ------------------------------------------------------------ row writers
\* every handler and workflow step that writes a table, called by each
\* token holder: a third user for tenant 1, a third tenant, role changes and
\* deactivations of every user, new complaints with their workflow run, a
\* solution and a feedback for complaint 1
NextRows ==
    \/ register_user("e3", "p2", 1, "consumer")
    \/ \E tok \in tokens : create_tenant(tok, "d3")
    \/ \E tok \in tokens : create_tenant_user(tok, "e3", "p2", "consumer")
    \/ \E tok \in tokens, u \in 1..MaxUsers : update_user_role(tok, u, "analyst")
    \/ \E tok \in tokens, u \in 1..MaxUsers : deactivate_user(tok, u)
    \/ \E tok \in tokens : create_complaint_commit(1, tok)
    \/ process_complaint_begin(1, FALSE)
    \/ stage_wrapper(1)
    \/ process_complaint_return(1)
    \/ respond(1)
    \/ \E tok \in tokens : create_solution(tok, 1)
    \/ \E tok \in tokens : create_feedback(tok, 1, rating_le)

SpecRows == Init /\ [][NextRows]_vars

\* ------------------------------------------------------------------ C30
\* every row of the table before the step is the same row after it
Extends(table) ==
    /\ Len(table') >= Len(table)
    /\ \A i \in 1..Len(table) : table'[i] = table[i]

\* C30: persisted rows are append-only. No step changes an existing
\* complaint (its narrative, tenant_id and user_id stay as created), an
\* existing Solution, Feedback or AuditLog row, or removes a User or Tenant
\* row; a deactivate_user step changes nothing of a user but is_active,
\* which it sets to false.
RowsAppendOnly ==
    [][/\ Extends(complaints)
       /\ Extends(solutions)
       /\ Extends(feedback)
       /\ Extends(audit_logs)
       /\ Len(users') >= Len(users)
       /\ Len(tenants') >= Len(tenants)
       /\ \A u \in 1..Len(users) :
              /\ users'[u].email = users[u].email
              /\ users'[u].tenant_id = users[u].tenant_id
       /\ \A tok \in tokens, user_id \in 1..MaxUsers :
              deactivate_user(tok, user_id) =>
                  \A u \in 1..Len(users) :
                      /\ [users'[u] EXCEPT !.is_active = users[u].is_active] = users[u]
                      /\ users'[u].is_active # users[u].is_active =>
                             (u = user_id /\ ~users'[u].is_active)]_vars

\* a user has been deactivated, and a complaint, a solution and audit rows
\* have been added to the seeded tables
DeactivatedAmongAppendedRows ==
    /\ \E u \in 1..Len(users) : ~users[u].is_active
    /\ Len(complaints) > 2
    /\ Len(solutions) > 0
    /\ Len(audit_logs) > 0

\* ------------------------------------------------------------------ C9
Closed(session) == session # << >> /\ session[Len(session)] = "close"

RolledBackThenClosed(session) ==
    \E i \in 1..Len(session) :
        /\ session[i] = "rollback"
        /\ i + 1 < Len(session)
        /\ session[i + 1] = "raise"

\* C9: the session of every answered request is closed, after a rollback and
\* re-raise when the handler raised; every workflow stage that was entered
\* acquired a session of its own, and each of them is closed.
SessionsScopedAndClosed ==
    /\ resp.op # "none" =>
           /\ Closed(resp.session)
           /\ resp.status >= 400 => RolledBackThenClosed(resp.session)
    /\ \A r \in RunIds :
           /\ Len(runs[r].stage_sessions) = Len(runs[r].entered)
           /\ \A i \in 1..Len(runs[r].stage_sessions) :
                  Closed(runs[r].stage_sessions[i])

====
